------------------------------ MODULE Spec2Model ------------------------------
(***************************************************************************)
(* Register map of the EXTI peripheral (EXIT_lib.h): the twelve register   *)
(* unions with their bitfield layouts, the per-bit and per-register masks, *)
(* the peripheral overlay __EXTI_t, the access macros rEXTI_* / bEXTI_*,   *)
(* and the accesses software and hardware make to the registers.           *)
(*                                                                         *)
(* A 32-bit word is the set of the positions (0 = least significant) of    *)
(* its 1 bits, so that every word of the full 32-bit range is a value.     *)
(***************************************************************************)
EXTENDS Integers, Sequences, FiniteSets, TLC

(***************************************************************************)
(* 32-bit words (uint32_t) and the C operators used by the header.         *)
(***************************************************************************)
WordBits == 0..31

Word == SUBSET WordBits

Zero == {}

Or(a, b) == a \cup b

And(a, b) == a \cap b

Not(a) == WordBits \ a

(* 1u << n, on a 32-bit unsigned: bits shifted past bit 31 are lost. *)
Shl1(n) == {n} \cap WordBits

HexDigit(c) ==
  CASE c = "0" -> 0  [] c = "1" -> 1  [] c = "2" -> 2  [] c = "3" -> 3
    [] c = "4" -> 4  [] c = "5" -> 5  [] c = "6" -> 6  [] c = "7" -> 7
    [] c = "8" -> 8  [] c = "9" -> 9  [] c = "A" -> 10 [] c = "B" -> 11
    [] c = "C" -> 12 [] c = "D" -> 13 [] c = "E" -> 14 [] c = "F" -> 15

Pow2(k) == IF k = 0 THEN 1 ELSE IF k = 1 THEN 2 ELSE IF k = 2 THEN 4 ELSE 8

(* The word written 0x<d1..d8>U: digit i (from the left) holds bits            *)
(* 4*(8-i) .. 4*(8-i)+3.                                                       *)
Hex(d) ==
  { 4 * (Len(d) - i) + k : <<i, k>> \in
      { p \in (1..Len(d)) \X (0..3) : (HexDigit(d[p[1]]) \div Pow2(p[2])) % 2 = 1 } }

(***************************************************************************)
(* 1. Register types and per-bit masks.                                    *)
(***************************************************************************)

(* typedef union { uint32_t w; struct {...} b; } __EXTI_IMR1_t: the members of struct b,
   in declaration order, each with its declared bit width. *)
__EXTI_IMR1_t ==
  <<
     <<"IM0", 1>>, <<"IM1", 1>>, <<"IM2", 1>>, <<"IM3", 1>>, <<"IM4", 1>>, <<"IM5", 1>>,
     <<"IM6", 1>>, <<"IM7", 1>>, <<"IM8", 1>>, <<"IM9", 1>>, <<"IM10", 1>>, <<"IM11", 1>>,
     <<"IM12", 1>>, <<"IM13", 1>>, <<"IM14", 1>>, <<"IM15", 1>>, <<"IM16", 1>>, <<"IM17", 1>>,
     <<"IM18", 1>>, <<"IM19", 1>>, <<"IM20", 1>>, <<"IM21", 1>>, <<"IM22", 1>>, <<"IM23", 1>>,
     <<"IM24", 1>>, <<"IM25", 1>>, <<"IM26", 1>>, <<"IM27", 1>>, <<"IM28", 1>>, <<"IM29", 1>>,
     <<"IM30", 1>>, <<"IM31", 1>>
  >>

(* #define mEXTI_IMR1_<field> (1u << n): the field name and the shift count n. *)
mEXTI_IMR1 ==
  <<
     <<"IM0", 0>>, <<"IM1", 1>>, <<"IM2", 2>>, <<"IM3", 3>>, <<"IM4", 4>>, <<"IM5", 5>>,
     <<"IM6", 6>>, <<"IM7", 7>>, <<"IM8", 8>>, <<"IM9", 9>>, <<"IM10", 10>>, <<"IM11", 11>>,
     <<"IM12", 12>>, <<"IM13", 13>>, <<"IM14", 14>>, <<"IM15", 15>>, <<"IM16", 16>>,
     <<"IM17", 17>>, <<"IM18", 18>>, <<"IM19", 19>>, <<"IM20", 20>>, <<"IM21", 21>>,
     <<"IM22", 22>>, <<"IM23", 23>>, <<"IM24", 24>>, <<"IM25", 25>>, <<"IM26", 26>>,
     <<"IM27", 27>>, <<"IM28", 28>>, <<"IM29", 29>>, <<"IM30", 30>>, <<"IM31", 31>>
  >>

(* typedef union { uint32_t w; struct {...} b; } __EXTI_EMR1_t: the members of struct b,
   in declaration order, each with its declared bit width. *)
__EXTI_EMR1_t ==
  <<
     <<"EM0", 1>>, <<"EM1", 1>>, <<"EM2", 1>>, <<"EM3", 1>>, <<"EM4", 1>>, <<"EM5", 1>>,
     <<"EM6", 1>>, <<"EM7", 1>>, <<"EM8", 1>>, <<"EM9", 1>>, <<"EM10", 1>>, <<"EM11", 1>>,
     <<"EM12", 1>>, <<"EM13", 1>>, <<"EM14", 1>>, <<"EM15", 1>>, <<"EM16", 1>>, <<"EM17", 1>>,
     <<"EM18", 1>>, <<"EM19", 1>>, <<"EM20", 1>>, <<"EM21", 1>>, <<"EM22", 1>>, <<"EM23", 1>>,
     <<"EM24", 1>>, <<"EM25", 1>>, <<"EM26", 1>>, <<"EM27", 1>>, <<"EM28", 1>>, <<"EM29", 1>>,
     <<"EM30", 1>>, <<"EM31", 1>>
  >>

(* #define mEXTI_EMR1_<field> (1u << n): the field name and the shift count n. *)
mEXTI_EMR1 ==
  <<
     <<"EM0", 0>>, <<"EM1", 1>>, <<"EM2", 2>>, <<"EM3", 3>>, <<"EM4", 4>>, <<"EM5", 5>>,
     <<"EM6", 6>>, <<"EM7", 7>>, <<"EM8", 8>>, <<"EM9", 9>>, <<"EM10", 10>>, <<"EM11", 11>>,
     <<"EM12", 12>>, <<"EM13", 13>>, <<"EM14", 14>>, <<"EM15", 15>>, <<"EM16", 16>>,
     <<"EM17", 17>>, <<"EM18", 18>>, <<"EM19", 19>>, <<"EM20", 20>>, <<"EM21", 21>>,
     <<"EM22", 22>>, <<"EM23", 23>>, <<"EM24", 24>>, <<"EM25", 25>>, <<"EM26", 26>>,
     <<"EM27", 27>>, <<"EM28", 28>>, <<"EM29", 29>>, <<"EM30", 30>>, <<"EM31", 31>>
  >>

(* typedef union { uint32_t w; struct {...} b; } __EXTI_RTSR1_t: the members of struct b,
   in declaration order, each with its declared bit width. *)
__EXTI_RTSR1_t ==
  <<
     <<"RT0", 1>>, <<"RT1", 1>>, <<"RT2", 1>>, <<"RT3", 1>>, <<"RT4", 1>>, <<"RT5", 1>>,
     <<"RT6", 1>>, <<"RT7", 1>>, <<"RT8", 1>>, <<"RT9", 1>>, <<"RT10", 1>>, <<"RT11", 1>>,
     <<"RT12", 1>>, <<"RT13", 1>>, <<"RT14", 1>>, <<"RT15", 1>>, <<"RT16", 1>>,
     <<"reserved0", 1>>, <<"RT18", 1>>, <<"RT19", 1>>, <<"RT20", 1>>, <<"RT21", 1>>,
     <<"RT22", 1>>, <<"reserved1", 9>>
  >>

(* mEXTI_RTSR1 with a mask for the reserved bit 17. *)
mEXTI_RTSR1_WithRT17 ==
  <<
     <<"RT0", 0>>, <<"RT1", 1>>, <<"RT2", 2>>, <<"RT3", 3>>, <<"RT4", 4>>, <<"RT5", 5>>,
     <<"RT6", 6>>, <<"RT7", 7>>, <<"RT8", 8>>, <<"RT9", 9>>, <<"RT10", 10>>, <<"RT11", 11>>,
     <<"RT12", 12>>, <<"RT13", 13>>, <<"RT14", 14>>, <<"RT15", 15>>, <<"RT16", 16>>,
     <<"RT17", 17>>, <<"RT18", 18>>, <<"RT19", 19>>, <<"RT20", 20>>, <<"RT21", 21>>,
     <<"RT22", 22>>
  >>

(* #define mEXTI_RTSR1_<field> (1u << n): the field name and the shift count n. *)
mEXTI_RTSR1 ==
  <<
     <<"RT0", 0>>, <<"RT1", 1>>, <<"RT2", 2>>, <<"RT3", 3>>, <<"RT4", 4>>, <<"RT5", 5>>,
     <<"RT6", 6>>, <<"RT7", 7>>, <<"RT8", 8>>, <<"RT9", 9>>, <<"RT10", 10>>, <<"RT11", 11>>,
     <<"RT12", 12>>, <<"RT13", 13>>, <<"RT14", 14>>, <<"RT15", 15>>, <<"RT16", 16>>,
     <<"RT18", 18>>, <<"RT19", 19>>, <<"RT20", 20>>, <<"RT21", 21>>, <<"RT22", 22>>
  >>

(* typedef union { uint32_t w; struct {...} b; } __EXTI_FTSR1_t: the members of struct b,
   in declaration order, each with its declared bit width. *)
__EXTI_FTSR1_t ==
  <<
     <<"FT0", 1>>, <<"FT1", 1>>, <<"FT2", 1>>, <<"FT3", 1>>, <<"FT4", 1>>, <<"FT5", 1>>,
     <<"FT6", 1>>, <<"FT7", 1>>, <<"FT8", 1>>, <<"FT9", 1>>, <<"FT10", 1>>, <<"FT11", 1>>,
     <<"FT12", 1>>, <<"FT13", 1>>, <<"FT14", 1>>, <<"FT15", 1>>, <<"FT16", 1>>,
     <<"reserved0", 1>>, <<"FT18", 1>>, <<"FT19", 1>>, <<"FT20", 1>>, <<"FT21", 1>>,
     <<"FT22", 1>>, <<"reserved1", 9>>
  >>

(* #define mEXTI_FTSR1_<field> (1u << n): the field name and the shift count n. *)
mEXTI_FTSR1 ==
  <<
     <<"FT0", 0>>, <<"FT1", 1>>, <<"FT2", 2>>, <<"FT3", 3>>, <<"FT4", 4>>, <<"FT5", 5>>,
     <<"FT6", 6>>, <<"FT7", 7>>, <<"FT8", 8>>, <<"FT9", 9>>, <<"FT10", 10>>, <<"FT11", 11>>,
     <<"FT12", 12>>, <<"FT13", 13>>, <<"FT14", 14>>, <<"FT15", 15>>, <<"FT16", 16>>,
     <<"FT18", 18>>, <<"FT19", 19>>, <<"FT20", 20>>, <<"FT21", 21>>, <<"FT22", 22>>
  >>

(* typedef union { uint32_t w; struct {...} b; } __EXTI_SWIER1_t: the members of struct b,
   in declaration order, each with its declared bit width. *)
__EXTI_SWIER1_t ==
  <<
     <<"SWI0", 1>>, <<"SWI1", 1>>, <<"SWI2", 1>>, <<"SWI3", 1>>, <<"SWI4", 1>>, <<"SWI5", 1>>,
     <<"SWI6", 1>>, <<"SWI7", 1>>, <<"SWI8", 1>>, <<"SWI9", 1>>, <<"SWI10", 1>>,
     <<"SWI11", 1>>, <<"SWI12", 1>>, <<"SWI13", 1>>, <<"SWI14", 1>>, <<"SWI15", 1>>,
     <<"SWI16", 1>>, <<"reserved0", 1>>, <<"SWI18", 1>>, <<"SWI19", 1>>, <<"SWI20", 1>>,
     <<"SWI21", 1>>, <<"SWI22", 1>>, <<"reserved1", 9>>
  >>

(* #define mEXTI_SWIER1_<field> (1u << n): the field name and the shift count n. *)
mEXTI_SWIER1 ==
  <<
     <<"SWI0", 0>>, <<"SWI1", 1>>, <<"SWI2", 2>>, <<"SWI3", 3>>, <<"SWI4", 4>>, <<"SWI5", 5>>,
     <<"SWI6", 6>>, <<"SWI7", 7>>, <<"SWI8", 8>>, <<"SWI9", 9>>, <<"SWI10", 10>>,
     <<"SWI11", 11>>, <<"SWI12", 12>>, <<"SWI13", 13>>, <<"SWI14", 14>>, <<"SWI15", 15>>,
     <<"SWI16", 16>>, <<"SWI18", 18>>, <<"SWI19", 19>>, <<"SWI20", 20>>, <<"SWI21", 21>>,
     <<"SWI22", 22>>
  >>

(* typedef union { uint32_t w; struct {...} b; } __EXTI_PR1_t: the members of struct b,
   in declaration order, each with its declared bit width. *)
__EXTI_PR1_t ==
  <<
     <<"PIF0", 1>>, <<"PIF1", 1>>, <<"PIF2", 1>>, <<"PIF3", 1>>, <<"PIF4", 1>>, <<"PIF5", 1>>,
     <<"PIF6", 1>>, <<"PIF7", 1>>, <<"PIF8", 1>>, <<"PIF9", 1>>, <<"PIF10", 1>>,
     <<"PIF11", 1>>, <<"PIF12", 1>>, <<"PIF13", 1>>, <<"PIF14", 1>>, <<"PIF15", 1>>,
     <<"PIF16", 1>>, <<"reserved0", 1>>, <<"PIF18", 1>>, <<"PIF19", 1>>, <<"PIF20", 1>>,
     <<"PIF21", 1>>, <<"PIF22", 1>>, <<"reserved1", 9>>
  >>

(* #define mEXTI_PR1_<field> (1u << n): the field name and the shift count n. *)
mEXTI_PR1 ==
  <<
     <<"PIF0", 0>>, <<"PIF1", 1>>, <<"PIF2", 2>>, <<"PIF3", 3>>, <<"PIF4", 4>>, <<"PIF5", 5>>,
     <<"PIF6", 6>>, <<"PIF7", 7>>, <<"PIF8", 8>>, <<"PIF9", 9>>, <<"PIF10", 10>>,
     <<"PIF11", 11>>, <<"PIF12", 12>>, <<"PIF13", 13>>, <<"PIF14", 14>>, <<"PIF15", 15>>,
     <<"PIF16", 16>>, <<"PIF18", 18>>, <<"PIF19", 19>>, <<"PIF20", 20>>, <<"PIF21", 21>>,
     <<"PIF22", 22>>
  >>

(* __EXTI_IMR2_t with the reserved member one bit short. *)
__EXTI_IMR2_t_ShortReserved ==
  <<
     <<"IM32", 1>>, <<"IM33", 1>>, <<"IM34", 1>>, <<"IM35", 1>>, <<"IM36", 1>>, <<"IM37", 1>>,
     <<"IM38", 1>>, <<"IM39", 1>>, <<"IM40", 1>>, <<"reserved0", 22>>
  >>

(* typedef union { uint32_t w; struct {...} b; } __EXTI_IMR2_t: the members of struct b,
   in declaration order, each with its declared bit width. *)
__EXTI_IMR2_t ==
  <<
     <<"IM32", 1>>, <<"IM33", 1>>, <<"IM34", 1>>, <<"IM35", 1>>, <<"IM36", 1>>, <<"IM37", 1>>,
     <<"IM38", 1>>, <<"IM39", 1>>, <<"IM40", 1>>, <<"reserved0", 23>>
  >>

(* #define mEXTI_IMR2_<field> (1u << n): the field name and the shift count n. *)
mEXTI_IMR2 ==
  <<
     <<"IM32", 0>>, <<"IM33", 1>>, <<"IM34", 2>>, <<"IM35", 3>>, <<"IM36", 4>>, <<"IM37", 5>>,
     <<"IM38", 6>>, <<"IM39", 7>>, <<"IM40", 8>>
  >>

(* typedef union { uint32_t w; struct {...} b; } __EXTI_EMR2_t: the members of struct b,
   in declaration order, each with its declared bit width. *)
__EXTI_EMR2_t ==
  <<
     <<"EM32", 1>>, <<"EM33", 1>>, <<"EM34", 1>>, <<"EM35", 1>>, <<"EM36", 1>>, <<"EM37", 1>>,
     <<"EM38", 1>>, <<"EM39", 1>>, <<"EM40", 1>>, <<"reserved0", 23>>
  >>

(* #define mEXTI_EMR2_<field> (1u << n): the field name and the shift count n. *)
mEXTI_EMR2 ==
  <<
     <<"EM32", 0>>, <<"EM33", 1>>, <<"EM34", 2>>, <<"EM35", 3>>, <<"EM36", 4>>, <<"EM37", 5>>,
     <<"EM38", 6>>, <<"EM39", 7>>, <<"EM40", 8>>
  >>

(* struct b of __EXTI_RTSR2_t with the four RT members declared in reverse *)
(* order.                                                                  *)
__EXTI_RTSR2_t_Reversed ==
  <<
     <<"reserved0", 3>>, <<"RT38", 1>>, <<"RT37", 1>>, <<"RT36", 1>>, <<"RT35", 1>>,
     <<"reserved1", 25>>
  >>

(* typedef union { uint32_t w; struct {...} b; } __EXTI_RTSR2_t: the members of struct b,
   in declaration order, each with its declared bit width. *)
__EXTI_RTSR2_t ==
  <<
     <<"reserved0", 3>>, <<"RT35", 1>>, <<"RT36", 1>>, <<"RT37", 1>>, <<"RT38", 1>>,
     <<"reserved1", 25>>
  >>

(* #define mEXTI_RTSR2_<field> (1u << n): the field name and the shift count n. *)
mEXTI_RTSR2 ==
  <<
     <<"RT35", 3>>, <<"RT36", 4>>, <<"RT37", 5>>, <<"RT38", 6>>
  >>

(* typedef union { uint32_t w; struct {...} b; } __EXTI_FTSR2_t: the members of struct b,
   in declaration order, each with its declared bit width. *)
__EXTI_FTSR2_t ==
  <<
     <<"reserved0", 3>>, <<"FT35", 1>>, <<"FT36", 1>>, <<"FT37", 1>>, <<"FT38", 1>>,
     <<"reserved1", 25>>
  >>

(* #define mEXTI_FTSR2_<field> (1u << n): the field name and the shift count n. *)
mEXTI_FTSR2 ==
  <<
     <<"FT35", 3>>, <<"FT36", 4>>, <<"FT37", 5>>, <<"FT38", 6>>
  >>

(* typedef union { uint32_t w; struct {...} b; } __EXTI_SWIER2_t: the members of struct b,
   in declaration order, each with its declared bit width. *)
__EXTI_SWIER2_t ==
  <<
     <<"reserved0", 3>>, <<"SWI35", 1>>, <<"SWI36", 1>>, <<"SWI37", 1>>, <<"SWI38", 1>>,
     <<"reserved1", 25>>
  >>

(* #define mEXTI_SWIER2_<field> (1u << n): the field name and the shift count n. *)
mEXTI_SWIER2 ==
  <<
     <<"SWI35", 3>>, <<"SWI36", 4>>, <<"SWI37", 5>>, <<"SWI38", 6>>
  >>

(* __EXTI_PR2_t without the low reserved member: PIF35 lands on bit 0. *)
__EXTI_PR2_t_NoLowReserved ==
  <<
     <<"PIF35", 1>>, <<"PIF36", 1>>, <<"PIF37", 1>>, <<"PIF38", 1>>, <<"reserved1", 28>>
  >>

(* typedef union { uint32_t w; struct {...} b; } __EXTI_PR2_t: the members of struct b,
   in declaration order, each with its declared bit width. *)
__EXTI_PR2_t ==
  <<
     <<"reserved0", 3>>, <<"PIF35", 1>>, <<"PIF36", 1>>, <<"PIF37", 1>>, <<"PIF38", 1>>,
     <<"reserved1", 25>>
  >>

(* mEXTI_PR2_* numbered from bit 2 instead of bit 3. *)
mEXTI_PR2_OffByOne ==
  <<
     <<"PIF35", 2>>, <<"PIF36", 3>>, <<"PIF37", 4>>, <<"PIF38", 5>>
  >>

(* #define mEXTI_PR2_<field> (1u << n): the field name and the shift count n. *)
mEXTI_PR2 ==
  <<
     <<"PIF35", 3>>, <<"PIF36", 4>>, <<"PIF37", 5>>, <<"PIF38", 6>>
  >>


(***************************************************************************)
(* 2. The peripheral overlay and the register-level masks.                 *)
(***************************************************************************)
(* typedef struct {...} __EXTI_t: the members in declaration order, each with *)
(* its declared type.                                                        *)
(* __EXTI_t with one reserved word between PR1 and IMR2 instead of two. *)
__EXTI_t_OneReservedWord ==
  <<
     <<"IMR1", "__EXTI_IMR1_t">>, <<"EMR1", "__EXTI_EMR1_t">>,
     <<"RTSR1", "__EXTI_RTSR1_t">>, <<"FTSR1", "__EXTI_FTSR1_t">>,
     <<"SWIER1", "__EXTI_SWIER1_t">>, <<"PR1", "__EXTI_PR1_t">>,
     <<"_RESERVED_0x18", "uint32_t">>,
     <<"IMR2", "__EXTI_IMR2_t">>, <<"EMR2", "__EXTI_EMR2_t">>,
     <<"RTSR2", "__EXTI_RTSR2_t">>, <<"FTSR2", "__EXTI_FTSR2_t">>,
     <<"SWIER2", "__EXTI_SWIER2_t">>, <<"PR2", "__EXTI_PR2_t">>
  >>

__EXTI_t ==
  <<
     <<"IMR1", "__EXTI_IMR1_t">>, <<"EMR1", "__EXTI_EMR1_t">>,
     <<"RTSR1", "__EXTI_RTSR1_t">>, <<"FTSR1", "__EXTI_FTSR1_t">>,
     <<"SWIER1", "__EXTI_SWIER1_t">>, <<"PR1", "__EXTI_PR1_t">>,
     <<"_RESERVED_0x18", "uint32_t">>, <<"_RESERVED_0x1C", "uint32_t">>,
     <<"IMR2", "__EXTI_IMR2_t">>, <<"EMR2", "__EXTI_EMR2_t">>,
     <<"RTSR2", "__EXTI_RTSR2_t">>, <<"FTSR2", "__EXTI_FTSR2_t">>,
     <<"SWIER2", "__EXTI_SWIER2_t">>, <<"PR2", "__EXTI_PR2_t">>
  >>

mEXTI_IMR1_VALID == Hex(<<"F", "F", "F", "F", "F", "F", "F", "F">>)
mEXTI_IMR1_RESERVED == Hex(<<"0", "0", "0", "0", "0", "0", "0", "0">>)
mEXTI_EMR1_VALID == Hex(<<"F", "F", "F", "F", "F", "F", "F", "F">>)
mEXTI_EMR1_RESERVED == Hex(<<"0", "0", "0", "0", "0", "0", "0", "0">>)
mEXTI_RTSR1_VALID == Hex(<<"0", "0", "7", "D", "F", "F", "F", "F">>)
(* mEXTI_RTSR1_RESERVED without bit 17. *)
mEXTI_RTSR1_RESERVED_NoBit17 == Hex(<<"F", "F", "8", "0", "0", "0", "0", "0">>)

mEXTI_RTSR1_RESERVED == Hex(<<"F", "F", "8", "2", "0", "0", "0", "0">>)
mEXTI_FTSR1_VALID == Hex(<<"0", "0", "7", "D", "F", "F", "F", "F">>)
mEXTI_FTSR1_RESERVED == Hex(<<"F", "F", "8", "2", "0", "0", "0", "0">>)
mEXTI_SWIER1_VALID == Hex(<<"0", "0", "7", "D", "F", "F", "F", "F">>)
mEXTI_SWIER1_RESERVED == Hex(<<"F", "F", "8", "2", "0", "0", "0", "0">>)
(* mEXTI_PR1_VALID with the reserved bit 17 counted as valid. *)
mEXTI_PR1_VALID_WithBit17 == Hex(<<"0", "0", "7", "F", "F", "F", "F", "F">>)

mEXTI_PR1_VALID == Hex(<<"0", "0", "7", "D", "F", "F", "F", "F">>)
mEXTI_PR1_RESERVED == Hex(<<"F", "F", "8", "2", "0", "0", "0", "0">>)
mEXTI_IMR2_VALID == Hex(<<"0", "0", "0", "0", "0", "1", "F", "F">>)
mEXTI_IMR2_RESERVED == Hex(<<"F", "F", "F", "F", "F", "E", "0", "0">>)
mEXTI_EMR2_VALID == Hex(<<"0", "0", "0", "0", "0", "1", "F", "F">>)
mEXTI_EMR2_RESERVED == Hex(<<"F", "F", "F", "F", "F", "E", "0", "0">>)
mEXTI_RTSR2_VALID == Hex(<<"0", "0", "0", "0", "0", "0", "7", "8">>)
mEXTI_RTSR2_RESERVED == Hex(<<"F", "F", "F", "F", "F", "F", "8", "7">>)
mEXTI_FTSR2_VALID == Hex(<<"0", "0", "0", "0", "0", "0", "7", "8">>)
mEXTI_FTSR2_RESERVED == Hex(<<"F", "F", "F", "F", "F", "F", "8", "7">>)
mEXTI_SWIER2_VALID == Hex(<<"0", "0", "0", "0", "0", "0", "7", "8">>)
mEXTI_SWIER2_RESERVED == Hex(<<"F", "F", "F", "F", "F", "F", "8", "7">>)
mEXTI_PR2_VALID == Hex(<<"0", "0", "0", "0", "0", "0", "7", "8">>)
mEXTI_PR2_RESERVED == Hex(<<"F", "F", "F", "F", "F", "F", "8", "7">>)


(***************************************************************************)
(* 3. Access macros.                                                       *)
(***************************************************************************)
(* rEXTI where rEXTI_EMR2 names the member IMR2. *)
rEXTI_EMR2NamesIMR2 ==
  <<
     <<"IMR1", "IMR1">>, <<"EMR1", "EMR1">>, <<"RTSR1", "RTSR1">>, <<"FTSR1", "FTSR1">>,
     <<"SWIER1", "SWIER1">>, <<"PR1", "PR1">>, <<"IMR2", "IMR2">>, <<"EMR2", "IMR2">>,
     <<"RTSR2", "RTSR2">>, <<"FTSR2", "FTSR2">>, <<"SWIER2", "SWIER2">>, <<"PR2", "PR2">>
  >>

(* #define rEXTI_<name> (sEXTI-><member>.w): the macro name and the member.  *)

rEXTI ==
  <<
     <<"IMR1", "IMR1">>, <<"EMR1", "EMR1">>, <<"RTSR1", "RTSR1">>, <<"FTSR1", "FTSR1">>,
     <<"SWIER1", "SWIER1">>, <<"PR1", "PR1">>, <<"IMR2", "IMR2">>, <<"EMR2", "EMR2">>,
     <<"RTSR2", "RTSR2">>, <<"FTSR2", "FTSR2">>, <<"SWIER2", "SWIER2">>, <<"PR2", "PR2">>
  >>

(* The text of each rEXTI macro body: the macro name, the pointer it       *)
(* dereferences, the overlay member and the member of the union.           *)
rEXTI_w ==
  <<
     <<"IMR1", "sEXTI", "IMR1", "w">>, <<"EMR1", "sEXTI", "EMR1", "w">>,
     <<"RTSR1", "sEXTI", "RTSR1", "w">>, <<"FTSR1", "sEXTI", "FTSR1", "w">>,
     <<"SWIER1", "sEXTI", "SWIER1", "w">>, <<"PR1", "sEXTI", "PR1", "w">>,
     <<"IMR2", "sEXTI", "IMR2", "w">>, <<"EMR2", "sEXTI", "EMR2", "w">>,
     <<"RTSR2", "sEXTI", "RTSR2", "w">>, <<"FTSR2", "sEXTI", "FTSR2", "w">>,
     <<"SWIER2", "sEXTI", "SWIER2", "w">>, <<"PR2", "sEXTI", "PR2", "w">>
  >>

bEXTI ==
  <<
     <<"IM0", "IMR1", "IM0">>, <<"IM1", "IMR1", "IM1">>, <<"IM2", "IMR1", "IM2">>,
     <<"IM3", "IMR1", "IM3">>, <<"IM4", "IMR1", "IM4">>, <<"IM5", "IMR1", "IM5">>,
     <<"IM6", "IMR1", "IM6">>, <<"IM7", "IMR1", "IM7">>, <<"IM8", "IMR1", "IM8">>,
     <<"IM9", "IMR1", "IM9">>, <<"IM10", "IMR1", "IM10">>, <<"IM11", "IMR1", "IM11">>,
     <<"IM12", "IMR1", "IM12">>, <<"IM13", "IMR1", "IM13">>, <<"IM14", "IMR1", "IM14">>,
     <<"IM15", "IMR1", "IM15">>, <<"IM16", "IMR1", "IM16">>, <<"IM17", "IMR1", "IM17">>,
     <<"IM18", "IMR1", "IM18">>, <<"IM19", "IMR1", "IM19">>, <<"IM20", "IMR1", "IM20">>,
     <<"IM21", "IMR1", "IM21">>, <<"IM22", "IMR1", "IM22">>, <<"IM23", "IMR1", "IM23">>,
     <<"IM24", "IMR1", "IM24">>, <<"IM25", "IMR1", "IM25">>, <<"IM26", "IMR1", "IM26">>,
     <<"IM27", "IMR1", "IM27">>, <<"IM28", "IMR1", "IM28">>, <<"IM29", "IMR1", "IM29">>,
     <<"IM30", "IMR1", "IM30">>, <<"IM31", "IMR1", "IM31">>, <<"EM0", "EMR1", "EM0">>,
     <<"EM1", "EMR1", "EM1">>, <<"EM2", "EMR1", "EM2">>, <<"EM3", "EMR1", "EM3">>,
     <<"EM4", "EMR1", "EM4">>, <<"EM5", "EMR1", "EM5">>, <<"EM6", "EMR1", "EM6">>,
     <<"EM7", "EMR1", "EM7">>, <<"EM8", "EMR1", "EM8">>, <<"EM9", "EMR1", "EM9">>,
     <<"EM10", "EMR1", "EM10">>, <<"EM11", "EMR1", "EM11">>, <<"EM12", "EMR1", "EM12">>,
     <<"EM13", "EMR1", "EM13">>, <<"EM14", "EMR1", "EM14">>, <<"EM15", "EMR1", "EM15">>,
     <<"EM16", "EMR1", "EM16">>, <<"EM17", "EMR1", "EM17">>, <<"EM18", "EMR1", "EM18">>,
     <<"EM19", "EMR1", "EM19">>, <<"EM20", "EMR1", "EM20">>, <<"EM21", "EMR1", "EM21">>,
     <<"EM22", "EMR1", "EM22">>, <<"EM23", "EMR1", "EM23">>, <<"EM24", "EMR1", "EM24">>,
     <<"EM25", "EMR1", "EM25">>, <<"EM26", "EMR1", "EM26">>, <<"EM27", "EMR1", "EM27">>,
     <<"EM28", "EMR1", "EM28">>, <<"EM29", "EMR1", "EM29">>, <<"EM30", "EMR1", "EM30">>,
     <<"EM31", "EMR1", "EM31">>, <<"RT0", "RTSR1", "RT0">>, <<"RT1", "RTSR1", "RT1">>,
     <<"RT2", "RTSR1", "RT2">>, <<"RT3", "RTSR1", "RT3">>, <<"RT4", "RTSR1", "RT4">>,
     <<"RT5", "RTSR1", "RT5">>, <<"RT6", "RTSR1", "RT6">>, <<"RT7", "RTSR1", "RT7">>,
     <<"RT8", "RTSR1", "RT8">>, <<"RT9", "RTSR1", "RT9">>, <<"RT10", "RTSR1", "RT10">>,
     <<"RT11", "RTSR1", "RT11">>, <<"RT12", "RTSR1", "RT12">>, <<"RT13", "RTSR1", "RT13">>,
     <<"RT14", "RTSR1", "RT14">>, <<"RT15", "RTSR1", "RT15">>, <<"RT16", "RTSR1", "RT16">>,
     <<"RT18", "RTSR1", "RT18">>, <<"RT19", "RTSR1", "RT19">>, <<"RT20", "RTSR1", "RT20">>,
     <<"RT21", "RTSR1", "RT21">>, <<"RT22", "RTSR1", "RT22">>, <<"FT0", "FTSR1", "FT0">>,
     <<"FT1", "FTSR1", "FT1">>, <<"FT2", "FTSR1", "FT2">>, <<"FT3", "FTSR1", "FT3">>,
     <<"FT4", "FTSR1", "FT4">>, <<"FT5", "FTSR1", "FT5">>, <<"FT6", "FTSR1", "FT6">>,
     <<"FT7", "FTSR1", "FT7">>, <<"FT8", "FTSR1", "FT8">>, <<"FT9", "FTSR1", "FT9">>,
     <<"FT10", "FTSR1", "FT10">>, <<"FT11", "FTSR1", "FT11">>, <<"FT12", "FTSR1", "FT12">>,
     <<"FT13", "FTSR1", "FT13">>, <<"FT14", "FTSR1", "FT14">>, <<"FT15", "FTSR1", "FT15">>,
     <<"FT16", "FTSR1", "FT16">>, <<"FT18", "FTSR1", "FT18">>, <<"FT19", "FTSR1", "FT19">>,
     <<"FT20", "FTSR1", "FT20">>, <<"FT21", "FTSR1", "FT21">>, <<"FT22", "FTSR1", "FT22">>,
     <<"SWI0", "SWIER1", "SWI0">>, <<"SWI1", "SWIER1", "SWI1">>, <<"SWI2", "SWIER1", "SWI2">>,
     <<"SWI3", "SWIER1", "SWI3">>, <<"SWI4", "SWIER1", "SWI4">>, <<"SWI5", "SWIER1", "SWI5">>,
     <<"SWI6", "SWIER1", "SWI6">>, <<"SWI7", "SWIER1", "SWI7">>, <<"SWI8", "SWIER1", "SWI8">>,
     <<"SWI9", "SWIER1", "SWI9">>, <<"SWI10", "SWIER1", "SWI10">>,
     <<"SWI11", "SWIER1", "SWI11">>, <<"SWI12", "SWIER1", "SWI12">>,
     <<"SWI13", "SWIER1", "SWI13">>, <<"SWI14", "SWIER1", "SWI14">>,
     <<"SWI15", "SWIER1", "SWI15">>, <<"SWI16", "SWIER1", "SWI16">>,
     <<"SWI18", "SWIER1", "SWI18">>, <<"SWI19", "SWIER1", "SWI19">>,
     <<"SWI20", "SWIER1", "SWI20">>, <<"SWI21", "SWIER1", "SWI21">>,
     <<"SWI22", "SWIER1", "SWI22">>, <<"PIF0", "PR1", "PIF0">>, <<"PIF1", "PR1", "PIF1">>,
     <<"PIF2", "PR1", "PIF2">>, <<"PIF3", "PR1", "PIF3">>, <<"PIF4", "PR1", "PIF4">>,
     <<"PIF5", "PR1", "PIF5">>, <<"PIF6", "PR1", "PIF6">>, <<"PIF7", "PR1", "PIF7">>,
     <<"PIF8", "PR1", "PIF8">>, <<"PIF9", "PR1", "PIF9">>, <<"PIF10", "PR1", "PIF10">>,
     <<"PIF11", "PR1", "PIF11">>, <<"PIF12", "PR1", "PIF12">>, <<"PIF13", "PR1", "PIF13">>,
     <<"PIF14", "PR1", "PIF14">>, <<"PIF15", "PR1", "PIF15">>, <<"PIF16", "PR1", "PIF16">>,
     <<"PIF18", "PR1", "PIF18">>, <<"PIF19", "PR1", "PIF19">>, <<"PIF20", "PR1", "PIF20">>,
     <<"PIF21", "PR1", "PIF21">>, <<"PIF22", "PR1", "PIF22">>, <<"IM32", "IMR2", "IM32">>,
     <<"IM33", "IMR2", "IM33">>, <<"IM34", "IMR2", "IM34">>, <<"IM35", "IMR2", "IM35">>,
     <<"IM36", "IMR2", "IM36">>, <<"IM37", "IMR2", "IM37">>, <<"IM38", "IMR2", "IM38">>,
     <<"IM39", "IMR2", "IM39">>, <<"IM40", "IMR2", "IM40">>, <<"EM32", "EMR2", "EM32">>,
     <<"EM33", "EMR2", "EM33">>, <<"EM34", "EMR2", "EM34">>, <<"EM35", "EMR2", "EM35">>,
     <<"EM36", "EMR2", "EM36">>, <<"EM37", "EMR2", "EM37">>, <<"EM38", "EMR2", "EM38">>,
     <<"EM39", "EMR2", "EM39">>, <<"EM40", "EMR2", "EM40">>, <<"RT35", "RTSR2", "RT35">>,
     <<"RT36", "RTSR2", "RT36">>, <<"RT37", "RTSR2", "RT37">>, <<"RT38", "RTSR2", "RT38">>,
     <<"FT35", "FTSR2", "FT35">>, <<"FT36", "FTSR2", "FT36">>, <<"FT37", "FTSR2", "FT37">>,
     <<"FT38", "FTSR2", "FT38">>, <<"SWI35", "SWIER2", "SWI35">>,
     <<"SWI36", "SWIER2", "SWI36">>, <<"SWI37", "SWIER2", "SWI37">>,
     <<"SWI38", "SWIER2", "SWI38">>, <<"PIF35", "PR2", "PIF35">>, <<"PIF36", "PR2", "PIF36">>,
     <<"PIF37", "PR2", "PIF37">>, <<"PIF38", "PR2", "PIF38">>
  >>

(***************************************************************************)
(* Layout rules of the C types: sizes, offsets and bitfield positions.     *)
(***************************************************************************)
(* sizeof(uint32_t), in bytes, and its width in bits. *)
UnitBits == Cardinality(WordBits)

UnitBytes == UnitBits \div 8

(* struct b of the union type named t. *)
StructB(t) ==
  CASE t = "__EXTI_IMR1_t"   -> __EXTI_IMR1_t
    [] t = "__EXTI_EMR1_t"   -> __EXTI_EMR1_t
    [] t = "__EXTI_RTSR1_t"  -> __EXTI_RTSR1_t
    [] t = "__EXTI_FTSR1_t"  -> __EXTI_FTSR1_t
    [] t = "__EXTI_SWIER1_t" -> __EXTI_SWIER1_t
    [] t = "__EXTI_PR1_t"    -> __EXTI_PR1_t
    [] t = "__EXTI_IMR2_t"   -> __EXTI_IMR2_t
    [] t = "__EXTI_EMR2_t"   -> __EXTI_EMR2_t
    [] t = "__EXTI_RTSR2_t"  -> __EXTI_RTSR2_t
    [] t = "__EXTI_FTSR2_t"  -> __EXTI_FTSR2_t
    [] t = "__EXTI_SWIER2_t" -> __EXTI_SWIER2_t
    [] t = "__EXTI_PR2_t"    -> __EXTI_PR2_t

(* Bit position, counted from bit 0 of the struct's first 32-bit unit, of   *)
(* member i of bitfield struct s: members are allocated from the least      *)
(* significant bit in declaration order, and a member that does not fit in  *)
(* what is left of its 32-bit unit starts the next unit.                    *)
RECURSIVE FieldStart(_, _)
FieldStart(s, i) ==
  IF i = 1 THEN 0
  ELSE LET free == FieldStart(s, i - 1) + s[i - 1][2]
           unit == (free \div UnitBits) * UnitBits
       IN  IF free + s[i][2] > unit + UnitBits THEN unit + UnitBits ELSE free

(* The bit positions member i of struct s occupies. *)
FieldBits(s, i) == FieldStart(s, i) .. (FieldStart(s, i) + s[i][2] - 1)

(* sizeof of bitfield struct s, in bytes: whole 32-bit units. *)
SizeofStruct(s) ==
  LET end == FieldStart(s, Len(s)) + s[Len(s)][2]
  IN  UnitBytes * ((end + UnitBits - 1) \div UnitBits)

(* sizeof of the type named t: a union is as large as its largest member. *)
Sizeof(t) ==
  IF t = "uint32_t" THEN UnitBytes
  ELSE IF SizeofStruct(StructB(t)) > UnitBytes THEN SizeofStruct(StructB(t))
       ELSE UnitBytes

(* offsetof(__EXTI_t, member i): every member is 4-byte aligned, so a member *)
(* starts where the previous one ends.                                       *)
RECURSIVE OffsetAt(_)
OffsetAt(i) == IF i = 1 THEN 0 ELSE OffsetAt(i - 1) + Sizeof(__EXTI_t[i - 1][2])

(* The members of the overlay, and those that are registers (union types). *)
Members == { __EXTI_t[i][1] : i \in 1..Len(__EXTI_t) }

Registers == { __EXTI_t[i][1] : i \in { j \in 1..Len(__EXTI_t) : __EXTI_t[j][2] # "uint32_t" } }

MemberIndex == [name \in Members |-> CHOOSE i \in 1..Len(__EXTI_t) : __EXTI_t[i][1] = name]

OffsetTable == [name \in Members |-> OffsetAt(MemberIndex[name])]

Offset(name) == OffsetTable[name]

SizeofEXTI == OffsetAt(Len(__EXTI_t)) + Sizeof(__EXTI_t[Len(__EXTI_t)][2])

TypeOf(name) == __EXTI_t[MemberIndex[name]][2]

LayoutTable == [r \in Registers |-> StructB(TypeOf(r))]

Layout(r) == LayoutTable[r]

(* Members of struct b that are explicit reserved padding. *)
ReservedNames == {"reserved0", "reserved1"}

AllFields(r) == { Layout(r)[i][1] : i \in 1..Len(Layout(r)) }

Fields(r) == AllFields(r) \ ReservedNames

(* The declarations of struct b of register r named f (reserved0 and       *)
(* reserved1 name one member each; a field name names one).                *)
FieldIndex(r, f) == CHOOSE i \in 1..Len(Layout(r)) : Layout(r)[i][1] = f

(* Bit positions of member f inside the word of register r. *)
PosTable ==
  [r \in Registers |-> [f \in AllFields(r) |-> FieldBits(Layout(r), FieldIndex(r, f))]]

BitsOf(r, f) == PosTable[r][f]

(* The least significant bit position of field f of register r. *)
FieldLo(r, f) == CHOOSE k \in BitsOf(r, f) : \A j \in BitsOf(r, f) : k <= j

(* Per-bit masks mEXTI_<r>_<f>. *)
MaskTable(r) ==
  CASE r = "IMR1"   -> mEXTI_IMR1
    [] r = "EMR1"   -> mEXTI_EMR1
    [] r = "RTSR1"  -> mEXTI_RTSR1
    [] r = "FTSR1"  -> mEXTI_FTSR1
    [] r = "SWIER1" -> mEXTI_SWIER1
    [] r = "PR1"    -> mEXTI_PR1
    [] r = "IMR2"   -> mEXTI_IMR2
    [] r = "EMR2"   -> mEXTI_EMR2
    [] r = "RTSR2"  -> mEXTI_RTSR2
    [] r = "FTSR2"  -> mEXTI_FTSR2
    [] r = "SWIER2" -> mEXTI_SWIER2
    [] r = "PR2"    -> mEXTI_PR2

MaskNames(r) == { MaskTable(r)[i][1] : i \in 1..Len(MaskTable(r)) }

MaskValue(r, f) ==
  LET i == CHOOSE j \in 1..Len(MaskTable(r)) : MaskTable(r)[j][1] = f
  IN  Shl1(MaskTable(r)[i][2])

MaskValues == [r \in Registers |-> [f \in MaskNames(r) |-> MaskValue(r, f)]]

Mask(r, f) == MaskValues[r][f]

VALID(r) ==
  CASE r = "IMR1"   -> mEXTI_IMR1_VALID
    [] r = "EMR1"   -> mEXTI_EMR1_VALID
    [] r = "RTSR1"  -> mEXTI_RTSR1_VALID
    [] r = "FTSR1"  -> mEXTI_FTSR1_VALID
    [] r = "SWIER1" -> mEXTI_SWIER1_VALID
    [] r = "PR1"    -> mEXTI_PR1_VALID
    [] r = "IMR2"   -> mEXTI_IMR2_VALID
    [] r = "EMR2"   -> mEXTI_EMR2_VALID
    [] r = "RTSR2"  -> mEXTI_RTSR2_VALID
    [] r = "FTSR2"  -> mEXTI_FTSR2_VALID
    [] r = "SWIER2" -> mEXTI_SWIER2_VALID
    [] r = "PR2"    -> mEXTI_PR2_VALID

RESERVED(r) ==
  CASE r = "IMR1"   -> mEXTI_IMR1_RESERVED
    [] r = "EMR1"   -> mEXTI_EMR1_RESERVED
    [] r = "RTSR1"  -> mEXTI_RTSR1_RESERVED
    [] r = "FTSR1"  -> mEXTI_FTSR1_RESERVED
    [] r = "SWIER1" -> mEXTI_SWIER1_RESERVED
    [] r = "PR1"    -> mEXTI_PR1_RESERVED
    [] r = "IMR2"   -> mEXTI_IMR2_RESERVED
    [] r = "EMR2"   -> mEXTI_EMR2_RESERVED
    [] r = "RTSR2"  -> mEXTI_RTSR2_RESERVED
    [] r = "FTSR2"  -> mEXTI_FTSR2_RESERVED
    [] r = "SWIER2" -> mEXTI_SWIER2_RESERVED
    [] r = "PR2"    -> mEXTI_PR2_RESERVED

(* The value of bitfield member f in word w of register r (b.f as an rvalue). *)
ReadField(r, f, w) ==
  { k - FieldLo(r, f) : k \in And(w, BitsOf(r, f)) }

(* b.f = x that stores only the member's bits and drops the rest of the word. *)
WriteField_DropsRest(r, f, x, w) ==
  And({ k + FieldLo(r, f) : k \in x }, BitsOf(r, f))

(* b.f = x that ORs the member's new bits into the word and clears none. *)
WriteField_SetsOnly(r, f, x, w) ==
  Or(w, And({ k + FieldLo(r, f) : k \in x }, BitsOf(r, f)))

(* The word after the assignment b.f = x on word w: x is truncated to the   *)
(* member's width and replaces the member's bits; the others are kept.      *)
WriteField(r, f, x, w) ==
  Or(And(w, Not(BitsOf(r, f))), And({ k + FieldLo(r, f) : k \in x }, BitsOf(r, f)))

(***************************************************************************)
(* Register semantics stated by the header's documentation.                *)
(***************************************************************************)
(* PR1 / PR2: "Un bit se pone a '1' por hardware cuando ocurre un evento.   *)
(* Se limpia escribiendo un '1' en el bit."                                 *)
PendingRegs == {"PR1", "PR2"}

(* SWIER1 / SWIER2: "Escribir un '1' en un bit genera el evento en la      *)
(* linea correspondiente."  The register of each bank and the pending      *)
(* register where the event of that bank is flagged.                       *)
PendingOf == [r \in {"SWIER1", "SWIER2"} |-> IF r = "SWIER1" THEN "PR1" ELSE "PR2"]

(* The macro names. *)
rNames == { rEXTI[i][1] : i \in 1..Len(rEXTI) }

bNames == { bEXTI[i][1] : i \in 1..Len(bEXTI) }

(* The expansion of rEXTI_<n>: the overlay member whose .w word it names. *)
rExpansion == [n \in rNames |-> rEXTI[CHOOSE i \in 1..Len(rEXTI) : rEXTI[i][1] = n]]

rMember(n) == rExpansion[n][2]

(* The expansion of bEXTI_<n>: the overlay member and the field of its b. *)
bExpansion == [n \in bNames |-> bEXTI[CHOOSE i \in 1..Len(bEXTI) : bEXTI[i][1] = n]]

bMember(n) == bExpansion[n][2]

bField(n) == bExpansion[n][3]

(* A bus read of register r: the word at sEXTI + offsetof(r). *)
Load(m, r) == m[Offset(r)]

(* A bus write whose store to a software trigger register also sets, in    *)
(* the same access, the flags of the lines written as 1.                   *)
Store_TriggerSetsPending(m, r, v) ==
  IF r \in DOMAIN PendingOf
    THEN [m EXCEPT ![Offset(r)] = v, ![Offset(PendingOf[r])] = Or(@, v)]
    ELSE [m EXCEPT ![Offset(r)] = IF r \in {"PR1", "PR2"} THEN And(@, Not(v)) ELSE v]

(* A bus write that stores v in every register, pending registers included. *)
Store_Plain(m, r, v) == [m EXCEPT ![Offset(r)] = v]

(* A bus write where a pending register keeps only the flags written as 1. *)
Store_ZeroClears(m, r, v) ==
  [m EXCEPT ![Offset(r)] = IF r \in PendingRegs THEN And(@, v) ELSE v]

(* A bus write where a register other than a pending one sets the bits     *)
(* written as 1 and keeps the others.                                      *)
Store_SetsOnes(m, r, v) ==
  [m EXCEPT ![Offset(r)] = IF r \in PendingRegs THEN And(@, Not(v)) ELSE Or(@, v)]

(* A bus write that a pending register ignores. *)
Store_PendingIgnores(m, r, v) ==
  [m EXCEPT ![Offset(r)] = IF r \in PendingRegs THEN @ ELSE v]

(* A bus write of word v to register r.  A pending register clears the     *)
(* flags written as 1 and keeps the others; any other register stores v.   *)
Store(m, r, v) ==
  [m EXCEPT ![Offset(r)] = IF r \in PendingRegs THEN And(@, Not(v)) ELSE v]

(* A trigger that inverts the flag instead of setting it. *)
Latch_Toggles(m, r, n) ==
  [m EXCEPT ![Offset(r)] = (@ \ Shl1(n)) \cup (Shl1(n) \ @)]

(* Hardware latches a trigger on bit n of pending register r. *)
Latch(m, r, n) == [m EXCEPT ![Offset(r)] = Or(@, Shl1(n))]

(***************************************************************************)
(* Bounds of the model.                                                    *)
(***************************************************************************)
(* Accesses software starts in one run, and triggers hardware latches. *)
MaxOps == 2

MaxHw == 2

(* Prior register contents. *)
Patterns ==
  { Zero,
    Hex(<<"F", "F", "F", "F", "F", "F", "F", "F">>),
    Hex(<<"A", "5", "A", "5", "A", "5", "A", "5">>) }

(* The bit positions the accesses of a run exercise: lines 5 and 22 in     *)
(* bank 1, lines 35 and 38 in bank 2.                                      *)
TestBits(r) == IF Offset(r) < 32 THEN {5, 22} ELSE {3, 6}

TestFieldsOf == [r \in Registers |-> { f \in Fields(r) : BitsOf(r, f) \subseteq TestBits(r) }]

TestFields(r) == TestFieldsOf[r]

TestMacrosOf ==
  [r \in Registers |-> { n \in bNames : bMember(n) = r /\ bField(n) \in TestFields(r) }]

TestMacros(r) == TestMacrosOf[r]

(* The macro rEXTI_<n> that names register r. *)
TestRegMacros(r) == { n \in rNames : rMember(n) = r }

(* Execution contexts: thread mode and an interrupt handler preempting it. *)
Contexts == {"main", "isr"}

(***************************************************************************)
(* State.                                                                  *)
(***************************************************************************)
VARIABLES
  mem,    \* the words of the overlay, by byte offset from sEXTI
  focus,  \* the register the accesses of this run are made to
  pc,     \* per context: "idle", or "rmw" between the load and the store of a bitfield write
  tmp,    \* per context: the word loaded by the bitfield write in progress
  acc,    \* per context: the bit macro and value of the bitfield write in progress
  loc,    \* per context: a local variable holding the last whole-register read
  last,   \* the last access made: kind, context, register, field, value x, bus word w
  nops,   \* accesses started by software
  nhw,    \* triggers latched by hardware
  fin     \* per context: the last bitfield write it completed (kept by NotedSpec only)

vars == <<mem, focus, pc, tmp, acc, loc, last, nops, nhw, fin>>

Offsets == { Offset(n) : n \in Members }

NoAcc == [macro |-> "none", x |-> Zero]

NoFin == [macro |-> "none", x |-> Zero, alone |-> FALSE]

NoAccess == [kind |-> "none", ctx |-> "none", reg |-> "none", field |-> "none", x |-> Zero, w |-> Zero]

Init ==
  /\ \E p \in Patterns : mem = [o \in Offsets |-> p]
  /\ focus \in Registers
  /\ pc = [c \in Contexts |-> "idle"]
  /\ tmp = [c \in Contexts |-> Zero]
  /\ acc = [c \in Contexts |-> NoAcc]
  /\ loc = [c \in Contexts |-> Zero]
  /\ last = NoAccess
  /\ nops = 0
  /\ nhw = 0
  /\ fin = [c \in Contexts |-> NoFin]

(* A context that runs only while no bitfield write is in progress. *)
CanRun_OnlyWhenAllIdle(c) == \A d \in Contexts : pc[d] = "idle"

(* The handler preempts thread mode and runs to completion: thread mode    *)
(* makes no step while the handler is inside a bitfield write.             *)
CanRun(c) == c = "isr" \/ pc["isr"] = "idle"

CanStart(c) == CanRun(c) /\ pc[c] = "idle" /\ nops < MaxOps

(* x = rEXTI_<n>; on a pending register that clears its flags when read. *)
RegRead_ClearsOnRead(c, n) ==
  LET r == rMember(n) IN
  /\ CanStart(c)
  /\ mem' = [mem EXCEPT ![Offset(r)] = IF r \in PendingRegs THEN Zero ELSE @]
  /\ loc' = [loc EXCEPT ![c] = Load(mem, r)]
  /\ last' = [kind |-> "rread", ctx |-> c, reg |-> r, field |-> "w", x |-> Zero, w |-> Load(mem, r)]
  /\ nops' = nops + 1
  /\ UNCHANGED <<focus, pc, tmp, acc, nhw, fin>>

(* x = rEXTI_<n>; *)
RegRead(c, n) ==
  LET r == rMember(n) IN
  /\ CanStart(c)
  /\ loc' = [loc EXCEPT ![c] = Load(mem, r)]
  /\ last' = [kind |-> "rread", ctx |-> c, reg |-> r, field |-> "w", x |-> Zero, w |-> Load(mem, r)]
  /\ nops' = nops + 1
  /\ UNCHANGED <<mem, focus, pc, tmp, acc, nhw, fin>>

(* rEXTI_<n> = v; *)
RegWrite(c, n, v) ==
  LET r == rMember(n) IN
  /\ CanStart(c)
  /\ mem' = Store(mem, r, v)
  /\ last' = [kind |-> "rwrite", ctx |-> c, reg |-> r, field |-> "w", x |-> Zero, w |-> v]
  /\ nops' = nops + 1
  /\ UNCHANGED <<focus, pc, tmp, acc, loc, nhw, fin>>

(* x = bEXTI_<n>; *)
BitRead(c, n) ==
  LET r == bMember(n)
      f == bField(n) IN
  /\ CanStart(c)
  /\ last' = [kind |-> "bread", ctx |-> c, reg |-> r, field |-> f,
              x |-> ReadField(r, f, Load(mem, r)), w |-> Load(mem, r)]
  /\ nops' = nops + 1
  /\ UNCHANGED <<mem, focus, pc, tmp, acc, loc, nhw, fin>>

(* bEXTI_<n> = x; first half: the load of the register word. *)
BitWriteLoad(c, n, x) ==
  /\ CanStart(c)
  /\ pc' = [pc EXCEPT ![c] = "rmw"]
  /\ tmp' = [tmp EXCEPT ![c] = Load(mem, bMember(n))]
  /\ acc' = [acc EXCEPT ![c] = [macro |-> n, x |-> x]]
  /\ last' = [kind |-> "bload", ctx |-> c, reg |-> bMember(n), field |-> bField(n),
              x |-> x, w |-> Load(mem, bMember(n))]
  /\ nops' = nops + 1
  /\ UNCHANGED <<mem, focus, loc, nhw, fin>>

(* bEXTI_<n> = x; second half: the store of the loaded word with the       *)
(* field replaced.                                                         *)
BitWriteStoreWord(c) ==
  LET r == bMember(acc[c].macro)
      f == bField(acc[c].macro)
      v == WriteField(r, f, acc[c].x, tmp[c]) IN
  /\ CanRun(c)
  /\ pc[c] = "rmw"
  /\ mem' = Store(mem, r, v)
  /\ pc' = [pc EXCEPT ![c] = "idle"]
  /\ tmp' = [tmp EXCEPT ![c] = Zero]
  /\ acc' = [acc EXCEPT ![c] = NoAcc]
  /\ last' = [kind |-> "bwrite", ctx |-> c, reg |-> r, field |-> f, x |-> acc[c].x, w |-> v]
  /\ UNCHANGED <<focus, loc, nops, nhw>>

BitWriteStore(c) == BitWriteStoreWord(c) /\ UNCHANGED fin

(* The same store, noting in fin which write the context has completed and *)
(* whether it ran alone: the access before the store was its own load.     *)
BitWriteStoreNoted(c) ==
  /\ BitWriteStoreWord(c)
  /\ fin' = [fin EXCEPT ![c] = [macro |-> acc[c].macro, x |-> acc[c].x,
                                alone |-> last.kind = "bload" /\ last.ctx = c]]

(* A trigger on a line of pending register r: hardware sets its flag. *)
HwSet(r, n) ==
  /\ r \in PendingRegs
  /\ nhw < MaxHw
  /\ mem' = Latch(mem, r, n)
  /\ last' = [kind |-> "hwset", ctx |-> "hw", reg |-> r, field |-> "w", x |-> Zero, w |-> Shl1(n)]
  /\ nhw' = nhw + 1
  /\ UNCHANGED <<focus, pc, tmp, acc, loc, nops, fin>>

(* The event of line n generated by the write that has just stored 1 in    *)
(* bit n of software trigger register r: hardware sets the flag of the     *)
(* line in the pending register of the bank.                               *)
SwTrigger(r, n) ==
  /\ r \in DOMAIN PendingOf
  /\ last.kind \in {"rwrite", "bwrite"}
  /\ last.reg = r
  /\ n \in last.w
  /\ nhw < MaxHw
  /\ mem' = Latch(mem, PendingOf[r], n)
  /\ last' = [kind |-> "hwset", ctx |-> "hw", reg |-> PendingOf[r], field |-> "w",
              x |-> Zero, w |-> Shl1(n)]
  /\ nhw' = nhw + 1
  /\ UNCHANGED <<focus, pc, tmp, acc, loc, nops, fin>>

(* The words a run writes to register r from context c: 0, the per-bit     *)
(* masks of the exercised fields and their OR, a word masked with VALID,   *)
(* the local snapshot, and the snapshot with one more mask OR-ed in.       *)
WriteValues(c, r) ==
  {Zero}
    \cup { Mask(r, f) : f \in TestFields(r) }
    \cup { UNION { Mask(r, f) : f \in TestFields(r) } }
    \cup { And(p, VALID(r)) : p \in Patterns }
    \cup { loc[c] }
    \cup { Or(loc[c], Mask(r, f)) : f \in TestFields(r) }

Next ==
  \/ \E c \in Contexts : \E n \in TestRegMacros(focus) : RegRead(c, n)
  \/ \E c \in Contexts : \E n \in TestRegMacros(focus) : \E v \in WriteValues(c, focus) :
       RegWrite(c, n, v)
  \/ \E c \in Contexts : \E n \in TestMacros(focus) : BitRead(c, n)
  \/ \E c \in Contexts : \E n \in TestMacros(focus) : \E x \in {Zero, Shl1(0)} :
       BitWriteLoad(c, n, x)
  \/ \E c \in Contexts : BitWriteStore(c)
  \/ \E n \in TestBits(focus) : HwSet(focus, n)
  \/ \E n \in TestBits(focus) : SwTrigger(focus, n)

Spec == Init /\ [][Next]_vars

(* The accesses to a register that is not a pending register, where       *)
(* hardware makes no step, with the completed bitfield writes noted in     *)
(* fin.                                                                    *)
InitNoted == Init /\ focus \notin PendingRegs

NextNoted ==
  \/ \E c \in Contexts : \E n \in TestRegMacros(focus) : RegRead(c, n)
  \/ \E c \in Contexts : \E n \in TestRegMacros(focus) : \E v \in WriteValues(c, focus) :
       RegWrite(c, n, v)
  \/ \E c \in Contexts : \E n \in TestMacros(focus) : BitRead(c, n)
  \/ \E c \in Contexts : \E n \in TestMacros(focus) : \E x \in {Zero, Shl1(0)} :
       BitWriteLoad(c, n, x)
  \/ \E c \in Contexts : BitWriteStoreNoted(c)

NotedSpec == InitNoted /\ [][NextNoted]_vars

(* The processor keeps executing: a bitfield write that has loaded its     *)
(* word goes on to its store.                                              *)
FairSpec == Spec /\ \A c \in Contexts : WF_vars(BitWriteStore(c))

(***************************************************************************)
(* Names: a field is named <prefix><line>, a register <kind><bank>.        *)
(***************************************************************************)
FieldPrefixes == {"IM", "EM", "RT", "FT", "SWI", "PIF"}

RegisterKinds == {"IMR", "EMR", "RTSR", "FTSR", "SWIER", "PR"}

(* The interrupt line a field name carries, as a number. *)
LineOfName(f) == CHOOSE n \in 0..40 : \E p \in FieldPrefixes : f = p \o ToString(n)

LineOf == [f \in UNION { Fields(r) : r \in Registers } |-> LineOfName(f)]

(* The bank a register name carries. *)
BankOf == [r \in Registers |-> CHOOSE b \in 1..2 : \E k \in RegisterKinds : r = k \o ToString(b)]

KindOf == [r \in Registers |-> CHOOSE k \in RegisterKinds : \E b \in 1..2 : r = k \o ToString(b)]

AllOnes == Hex(<<"F", "F", "F", "F", "F", "F", "F", "F">>)

(***************************************************************************)
(* Properties.                                                             *)
(***************************************************************************)

(* The bits of the lines the documentation gives each register. *)
DocumentedBits ==
  [r \in Registers |->
     CASE KindOf[r] \in {"IMR", "EMR"} /\ BankOf[r] = 1 -> 0..31
       [] KindOf[r] \in {"IMR", "EMR"} /\ BankOf[r] = 2 -> { l - 32 : l \in 32..40 }
       [] KindOf[r] \notin {"IMR", "EMR"} /\ BankOf[r] = 1 -> (0..16) \cup (18..22)
       [] KindOf[r] \notin {"IMR", "EMR"} /\ BankOf[r] = 2 -> { l - 32 : l \in 35..38 }]

(* The hexadecimal form the documentation gives the same sets. *)
DocumentedHex ==
  [r \in Registers |->
     CASE KindOf[r] \in {"IMR", "EMR"} /\ BankOf[r] = 1 ->
            Hex(<<"F", "F", "F", "F", "F", "F", "F", "F">>)
       [] KindOf[r] \in {"IMR", "EMR"} /\ BankOf[r] = 2 ->
            Hex(<<"0", "0", "0", "0", "0", "1", "F", "F">>)
       [] KindOf[r] \notin {"IMR", "EMR"} /\ BankOf[r] = 1 ->
            Hex(<<"0", "0", "7", "D", "F", "F", "F", "F">>)
       [] KindOf[r] \notin {"IMR", "EMR"} /\ BankOf[r] = 2 ->
            Hex(<<"0", "0", "0", "0", "0", "0", "7", "8">>)]

(* The OR of all per-bit masks of register r. *)
OrOfMasks == [r \in Registers |-> UNION { Mask(r, f) : f \in MaskNames(r) }]

(* VALID and RESERVED of every register are complementary. *)
MasksPartition ==
  /\ Cardinality(Registers) = 12
  /\ \A r \in Registers :
       /\ Or(VALID(r), RESERVED(r)) = AllOnes
       /\ And(VALID(r), RESERVED(r)) = Zero

(* VALID of every register is the OR of its per-bit masks and the          *)
(* documented set.                                                         *)
ValidAsDocumented ==
  \A r \in Registers :
    /\ VALID(r) = OrOfMasks[r]
    /\ VALID(r) = DocumentedBits[r]
    /\ VALID(r) = DocumentedHex[r]

(* C1: for each of the twelve registers, mEXTI_<REG>_VALID and             *)
(* mEXTI_<REG>_RESERVED partition the 32 bits: their OR is 0xFFFFFFFF and  *)
(* their AND is 0; so the valid part and the reserved part of whatever     *)
(* word a register holds are disjoint and together are the whole word.     *)
C1_ValidReservedPartition ==
  /\ MasksPartition
  /\ LET w == Load(mem, focus) IN
       /\ Or(And(w, VALID(focus)), And(w, RESERVED(focus))) = w
       /\ And(And(w, VALID(focus)), And(w, RESERVED(focus))) = Zero

(* A register with reserved bits holds, after a write, a word with both    *)
(* valid and reserved bits set and with both kinds of bits clear.          *)
C1_Witness ==
  /\ last.kind \in {"rwrite", "bwrite"}
  /\ RESERVED(last.reg) # Zero
  /\ LET w == Load(mem, last.reg) IN
       /\ And(w, VALID(last.reg)) \notin {Zero, VALID(last.reg)}
       /\ And(w, RESERVED(last.reg)) \notin {Zero, RESERVED(last.reg)}

(* C2: for each register, mEXTI_<REG>_VALID is the OR of all its per-bit   *)
(* masks and is the documented line set: IMR1/EMR1 bits 0..31              *)
(* (0xFFFFFFFF); RTSR1/FTSR1/SWIER1/PR1 bits 0..16 and 18..22              *)
(* (0x007DFFFF); IMR2/EMR2 bits 0..8 (0x000001FF); RTSR2/FTSR2/SWIER2/PR2  *)
(* bits 3..6 (0x00000078).  So a word masked with VALID, once written,     *)
(* has only bits that carry a per-bit mask and a documented line.          *)
C2_ValidIsOrOfBitMasks ==
  /\ ValidAsDocumented
  /\ last.kind = "rwrite" /\ And(last.w, RESERVED(last.reg)) = Zero
       => last.w \subseteq And(OrOfMasks[last.reg], DocumentedBits[last.reg])

(* A word masked with mEXTI_RTSR1_VALID has been written to RTSR1, and     *)
(* the register holds exactly the bits of lines 0..16 and 18..22.          *)
C2_Witness ==
  /\ last.kind = "rwrite"
  /\ last.reg = "RTSR1"
  /\ last.w = OrOfMasks["RTSR1"]
  /\ Load(mem, "RTSR1") = (0..16) \cup (18..22)

(* The bytes member n of the overlay occupies. *)
BytesOf == [n \in Members |-> Offset(n) .. (Offset(n) + Sizeof(TypeOf(n)) - 1)]

(* The documented offsets, 0x00 .. 0x34. *)
DocumentedOffset ==
  [r \in Registers |->
     CASE r = "IMR1"   -> 0   [] r = "EMR1"   -> 4
       [] r = "RTSR1"  -> 8   [] r = "FTSR1"  -> 12
       [] r = "SWIER1" -> 16  [] r = "PR1"    -> 20
       [] r = "IMR2"   -> 32  [] r = "EMR2"   -> 36
       [] r = "RTSR2"  -> 40  [] r = "FTSR2"  -> 44
       [] r = "SWIER2" -> 48  [] r = "PR2"    -> 52]

(* Registers at the documented offsets, 4 bytes each, pairwise disjoint,   *)
(* the bytes of no register being exactly 0x18..0x1F, 56 bytes in all.     *)
OverlayAsDocumented ==
  /\ \A r \in Registers : Offset(r) = DocumentedOffset[r]
  /\ \A n \in Members : Sizeof(TypeOf(n)) = 4
  /\ \A r1, r2 \in Registers : r1 # r2 => BytesOf[r1] \cap BytesOf[r2] = {}
  /\ (0..(SizeofEXTI - 1)) \ UNION { BytesOf[r] : r \in Registers } = 24..31
  /\ SizeofEXTI = 56

(* C3: in the overlay __EXTI_t the registers sit at offsets IMR1=0x00,     *)
(* EMR1=0x04, RTSR1=0x08, FTSR1=0x0C, SWIER1=0x10, PR1=0x14, IMR2=0x20,    *)
(* EMR2=0x24, RTSR2=0x28, FTSR2=0x2C, SWIER2=0x30, PR2=0x34; the only gap  *)
(* is the 8 reserved bytes at 0x18..0x1F; no two registers overlap; the    *)
(* total size is 0x38 bytes.  So the memory is exactly the 14 words at     *)
(* 0x00..0x34 and an access to a register reaches its documented offset.   *)
C3_OverlayOffsets ==
  /\ OverlayAsDocumented
  /\ DOMAIN mem = { 4 * k : k \in 0..13 }
  /\ last.kind # "none" => Load(mem, last.reg) = mem[DocumentedOffset[last.reg]]

(* PR2, the last register, has been written at offset 0x34 and nothing     *)
(* else has changed.                                                       *)
C3_Witness ==
  /\ last.kind = "rwrite"
  /\ last.reg = "PR2"
  /\ mem[52] # mem[24]
  /\ \A o \in DOMAIN mem \ {52} : mem[o] = mem[24]

(* The widths of all members of struct b of register r, summed. *)
RECURSIVE SumWidths(_, _)
SumWidths(s, i) == IF i = 0 THEN 0 ELSE SumWidths(s, i - 1) + s[i][2]

(* Every struct b declares exactly 32 bits, each bit in exactly one member. *)
StructsDeclare32Bits ==
  \A r \in Registers :
    /\ SumWidths(Layout(r), Len(Layout(r))) = 32
    /\ \A k \in WordBits :
         Cardinality({ i \in 1..Len(Layout(r)) : k \in FieldBits(Layout(r), i) }) = 1
    /\ UNION { FieldBits(Layout(r), i) : i \in 1..Len(Layout(r)) } = WordBits

(* C4: for each of the twelve register unions the widths of all bitfield   *)
(* members of struct b sum to exactly 32, so every bit position 0..31      *)
(* belongs to exactly one declared member (IMR2: 9 named bits + 23         *)
(* reserved; RTSR2: 3 reserved + 4 named + 25 reserved).  So every bit of  *)
(* the word a register holds is the bit of one member.                     *)
C4_BitfieldsCoverWord ==
  /\ StructsDeclare32Bits
  /\ Cardinality(Fields("IMR2")) = 9 /\ Cardinality(BitsOf("IMR2", "reserved0")) = 23
  /\ Cardinality(BitsOf("RTSR2", "reserved0")) = 3
  /\ Cardinality(Fields("RTSR2")) = 4 /\ Cardinality(BitsOf("RTSR2", "reserved1")) = 25
  /\ \A k \in Load(mem, focus) : \E f \in AllFields(focus) : k \in BitsOf(focus, f)

(* A bitfield write to IMR2 or RTSR2 has stored a word whose set bits lie  *)
(* both in named members and in reserved members.                          *)
C4_Witness ==
  /\ last.kind = "bwrite"
  /\ last.reg \in {"IMR2", "RTSR2"}
  /\ \E f \in Fields(last.reg) : BitsOf(last.reg, f) \subseteq last.w
  /\ \E f \in ReservedNames \cap AllFields(last.reg) : And(last.w, BitsOf(last.reg, f)) # Zero

(* Every named field has a single-bit mask at its own bit position, the    *)
(* masks of a register are pairwise distinct, and the reserved members     *)
(* cover exactly the RESERVED mask.                                        *)
FieldsMatchMasks ==
  \A r \in Registers :
    /\ MaskNames(r) = Fields(r)
    /\ \A f \in Fields(r) : Cardinality(Mask(r, f)) = 1 /\ BitsOf(r, f) = Mask(r, f)
    /\ \A f, g \in Fields(r) : f # g => Mask(r, f) # Mask(r, g)
    /\ UNION { BitsOf(r, f) : f \in AllFields(r) \cap ReservedNames } = RESERVED(r)

(* C5: with bitfields allocated from the least significant bit in          *)
(* declaration order, the bit position of b.F equals the position of the   *)
(* single set bit of mEXTI_<REG>_<F> for every named field; the per-bit    *)
(* masks of one register are single-bit and pairwise distinct; the         *)
(* reserved members cover exactly mEXTI_<REG>_RESERVED.  So the bit a      *)
(* bitfield access touches is the bit its mask selects.                    *)
C5_FieldPositionIsMaskBit ==
  /\ FieldsMatchMasks
  /\ last.kind = "bwrite" =>
       And(last.w, Mask(last.reg, last.field)) = { k + FieldLo(last.reg, last.field) : k \in last.x }
  /\ last.kind = "bread" =>
       (last.x # Zero <=> And(last.w, Mask(last.reg, last.field)) # Zero)

(* bEXTI_PIF38 = 1 has stored a word with the bit of mEXTI_PR2_PIF38 set. *)
C5_Witness ==
  /\ last.kind = "bwrite"
  /\ last.reg = "PR2"
  /\ last.field = "PIF38"
  /\ last.x = Shl1(0)
  /\ Mask("PR2", "PIF38") \subseteq last.w

(* Line L sits on bit L of the bank-1 registers and on bit L - 32 of the   *)
(* bank-2 registers, whatever the register kind.                           *)
LinesOnSameBit ==
  /\ \A r \in Registers : \A f \in Fields(r) :
       BitsOf(r, f) = { LineOf[f] - 32 * (BankOf[r] - 1) }
  /\ \A r1, r2 \in Registers : \A f1 \in Fields(r1) : \A f2 \in Fields(r2) :
       LineOf[f1] = LineOf[f2] => BankOf[r1] = BankOf[r2] /\ BitsOf(r1, f1) = BitsOf(r2, f2)

(* C6: bit positions are stable across register kinds: every line L with   *)
(* a named field in more than one of the mask, trigger, software-interrupt *)
(* and pending registers has it at the same bit position in all of them:   *)
(* bit L in bank 1, bit L - 32 in bank 2.  So an access to the field of    *)
(* line L moves bit L (or L - 32) on the bus, and a trigger latched on a   *)
(* bit is the flag of the line whose mask bit is that bit.                 *)
C6_LineBitStable ==
  /\ LinesOnSameBit
  /\ last.kind \in {"bwrite", "bread", "bload"} =>
       BitsOf(last.reg, last.field) = { LineOf[last.field] - 32 * (BankOf[last.reg] - 1) }
  /\ last.kind = "hwset" =>
       \E f \in Fields(last.reg) :
         /\ last.w = BitsOf(last.reg, f)
         /\ \A r \in Registers : BankOf[r] = BankOf[last.reg] =>
              \A g \in Fields(r) : LineOf[g] = LineOf[f] => BitsOf(r, g) = last.w

(* bEXTI_PIF35 = 0 has been executed on PR2: the store carries bit 3 of    *)
(* line 35 clear, the bit IM35 has in IMR2.                                *)
C6_Witness ==
  /\ last.kind = "bwrite"
  /\ last.reg = "PR2"
  /\ LineOf[last.field] = 35
  /\ last.x = Zero
  /\ BitsOf("IMR2", "IM35") = {3}
  /\ 3 \notin last.w

(* The plain read-write registers: mask and trigger selection. *)
RWRegs == { r \in Registers : KindOf[r] \in {"IMR", "EMR", "RTSR", "FTSR"} }

(* A bitfield write to a plain read-write register whose word no one has   *)
(* changed since the write loaded it leaves v | mask for 1 and v & ~mask   *)
(* for 0, and leaves every other word alone; on the loaded word the same   *)
(* holds of every named field of the register.                             *)
C7_Step ==
  (last'.kind = "bwrite" /\ last'.reg \in RWRegs /\ tmp[last'.ctx] = Load(mem, last'.reg)) =>
    LET r == last'.reg
        f == last'.field
        v == Load(mem, r) IN
      /\ last'.x = Shl1(0) => Load(mem', r) = Or(v, Mask(r, f))
      /\ last'.x = Zero => Load(mem', r) = And(v, Not(Mask(r, f)))
      /\ \A o \in DOMAIN mem \ {Offset(r)} : mem'[o] = mem[o]
      /\ \A g \in Fields(r) :
           /\ WriteField(r, g, Shl1(0), v) = Or(v, Mask(r, g))
           /\ WriteField(r, g, Zero, v) = And(v, Not(Mask(r, g)))
      /\ (v = Zero /\ r = "IMR1" /\ f = "IM5" /\ last'.x = Shl1(0)) =>
           Load(mem', r) = Hex(<<"0", "0", "0", "0", "0", "0", "2", "0">>)
      /\ (v = Zero /\ r = "RTSR1" /\ f = "RT22" /\ last'.x = Shl1(0)) =>
           Load(mem', r) = Hex(<<"0", "0", "4", "0", "0", "0", "0", "0">>)

(* C7: in a single execution context, on a plain read-write register (IMR, *)
(* EMR, RTSR, FTSR of either bank) holding any prior value v, writing 1 to *)
(* one named bit field leaves the word equal to v | mask_of_that_bit and   *)
(* writing 0 leaves it equal to v & ~mask_of_that_bit, every other bit     *)
(* unchanged; from IMR1 = 0 setting IM5 gives 0x00000020 and from          *)
(* RTSR1 = 0 setting RT22 gives 0x00400000.                                *)
C7_BitWriteChangesOnlyItsBit == [][C7_Step]_vars

(* bEXTI_IM5 = 1 has run alone on IMR1 = 0 and IMR1 reads 0x00000020. *)
C7_Witness ==
  /\ last.kind = "bwrite"
  /\ last.reg = "IMR1"
  /\ last.field = "IM5"
  /\ last.x = Shl1(0)
  /\ nops = 1
  /\ mem[24] = Zero
  /\ Load(mem, "IMR1") = Hex(<<"0", "0", "0", "0", "0", "0", "2", "0">>)

(* A whole-register write of m to a pending register holding p leaves      *)
(* p & ~m.                                                                 *)
C8_Step ==
  (last'.kind = "rwrite" /\ last'.reg \in PendingRegs) =>
    LET r == last'.reg
        p == Load(mem, r)
        m == last'.w IN
      /\ Load(mem', r) = And(p, Not(m))
      /\ Cardinality(m) = 1 =>
           /\ And(Load(mem', r), m) = Zero
           /\ \A k \in p \ m : k \in Load(mem', r)
      /\ m = Zero => mem' = mem

(* C8: for the pending registers PR1 and PR2 with any current value p, a   *)
(* whole-register write (rEXTI_PR1 / rEXTI_PR2) of a value m leaves the    *)
(* register equal to p & ~m: a mask with only bit N set clears bit N and   *)
(* leaves every other set flag set, and writing 0 changes nothing.         *)
C8_PendingWriteClearsOnes == [][C8_Step]_vars

(* rEXTI_PR1 = mEXTI_PR1_PIF5 has run with every flag pending: only flag 5 *)
(* is clear.                                                               *)
C8_Witness ==
  /\ last.kind = "rwrite"
  /\ last.reg = "PR1"
  /\ last.w = Mask("PR1", "PIF5")
  /\ Load(mem, "PR1") = AllOnes \ Mask("PR1", "PIF5")

(* C9: writing 1 through a pending-flag bit macro (bEXTI_PIFn = 1) affects *)
(* only flag n: every pending flag other than n that was set before the    *)
(* write is still set after it.                                            *)
C9_BitMacroKeepsOtherFlags ==
  [][(last'.kind = "bwrite" /\ last'.reg \in PendingRegs /\ last'.x = Shl1(0)) =>
       \A k \in Load(mem, last'.reg) \ BitsOf(last'.reg, last'.field) :
         k \in Load(mem', last'.reg)]_vars

(* A write of one per-bit mask to a pending register clears no other flag, *)
(* and a flag that goes from 1 to 0 does so in a software store to its     *)
(* register whose word has that flag's bit set.                            *)
C10_Step ==
  /\ (/\ last'.kind = "rwrite"
      /\ last'.reg \in PendingRegs
      /\ \E f \in Fields(last'.reg) : last'.w = Mask(last'.reg, f)) =>
       \A k \in Load(mem, last'.reg) \ last'.w : k \in Load(mem', last'.reg)
  /\ \A r \in PendingRegs : \A k \in Load(mem, r) \ Load(mem', r) :
       /\ last'.kind \in {"rwrite", "bwrite"}
       /\ last'.reg = r
       /\ k \in last'.w

(* C10: with hardware free to set any pending bit at any moment, software  *)
(* that clears line N by a whole-register write of the constant single-bit *)
(* mask never clears a pending flag of a line M # N: in every interleaving *)
(* of hardware set events and such writes, a flag M that was set stays set *)
(* until a write whose bit M is 1.                                         *)
C10_MaskWriteClearsOnlyItsLine == [][C10_Step]_vars

(* Hardware has latched lines 5 and 22 on an empty PR1, software has then  *)
(* written mEXTI_PR1_PIF5, and PIF22 alone is pending.                     *)
C10_Witness ==
  /\ last.kind = "rwrite"
  /\ last.reg = "PR1"
  /\ last.w = Mask("PR1", "PIF5")
  /\ mem[24] = Zero
  /\ nhw = 2
  /\ nops = 1
  /\ Load(mem, "PR1") = Mask("PR1", "PIF22")

(* The step writes back to a pending register a word read from it before   *)
(* hardware latched flag M: either a whole-register write of the local     *)
(* snapshot, perhaps with more bits OR-ed in, or the store of a bitfield   *)
(* write that sets its flag in the word it loaded.  M is 0 in the snapshot *)
(* and in the word written, and its trigger is the access just before.     *)
C11_WriteBack(M) ==
  /\ last.kind = "hwset"
  /\ M \in last.w
  /\ last'.reg = last.reg
  /\ M \notin last'.w
  /\ \/ /\ last'.kind = "rwrite"
        /\ loc[last'.ctx] # Zero
        /\ M \notin loc[last'.ctx]
        /\ loc[last'.ctx] \subseteq last'.w
     \/ /\ last'.kind = "bwrite"
        /\ M \notin tmp[last'.ctx]
        /\ tmp[last'.ctx] \subseteq last'.w

(* C11 as stated: when software reads the pending register into a          *)
(* snapshot, hardware then sets a new pending bit M that was 0 in the      *)
(* snapshot, and software then writes the snapshot (or the snapshot with   *)
(* further bits OR-ed in, none of them M) back, the newly set bit M is     *)
(* cleared by that write-back.                                             *)
C11_WriteBackClearsNewFlag ==
  [][\A M \in WordBits : C11_WriteBack(M) => M \notin Load(mem', last'.reg)]_vars

(* C11, amended: in the same scenario the newly set bit M is still set     *)
(* after the write-back; the write-back clears the flags that are 1 in the *)
(* word written, which are the flags of the snapshot, and no other.        *)
C11_WriteBackKeepsNewFlag ==
  [][\A M \in WordBits : C11_WriteBack(M) =>
       /\ M \in Load(mem', last'.reg)
       /\ Load(mem', last'.reg) = Load(mem, last'.reg) \ last'.w]_vars

(* PR1 held 0xA5A5A5A5, a context read it, hardware latched line 22, the   *)
(* context wrote its snapshot back: PIF22 alone is pending.                *)
C11_Witness ==
  /\ last.kind = "rwrite"
  /\ last.reg = "PR1"
  /\ nhw = 1
  /\ loc[last.ctx] = mem[24]
  /\ mem[24] \notin {Zero, AllOnes}
  /\ last.w = loc[last.ctx]
  /\ Load(mem, "PR1") = Mask("PR1", "PIF22")

(* In any step, a flag of a pending register that goes from 0 to 1 is the  *)
(* flag of the trigger hardware latches in that step, a flag that goes     *)
(* from 1 to 0 is written as 1 by the software store of that step, and a   *)
(* software store to a pending register sets no flag and clears every      *)
(* flag it writes as 1.                                                    *)
C12_Step ==
  \A r \in PendingRegs :
    /\ \A k \in Load(mem', r) \ Load(mem, r) :
         last'.kind = "hwset" /\ last'.reg = r /\ k \in last'.w
    /\ \A k \in Load(mem, r) \ Load(mem', r) :
         last'.kind \in {"rwrite", "bwrite"} /\ last'.reg = r /\ k \in last'.w
    /\ (last'.kind \in {"rwrite", "bwrite"} /\ last'.reg = r) =>
         /\ Load(mem', r) \subseteq Load(mem, r)
         /\ And(Load(mem', r), last'.w) = Zero
    /\ (last'.kind = "hwset" /\ last'.reg = r) =>
         Load(mem', r) = Or(Load(mem, r), last'.w)

(* C12: a pending flag is a latch: in every behaviour, bit N of PR1/PR2    *)
(* changes from 0 to 1 only in a hardware trigger step (never as the       *)
(* result of a software write to the pending register), and changes from   *)
(* 1 to 0 only in a software write step whose written value has bit N = 1; *)
(* between those steps it keeps its value.                                 *)
C12_PendingFlagIsLatch == [][C12_Step]_vars

(* PR2 was empty, hardware latched one trigger, and bEXTI_PIF38 = 1 has    *)
(* stored a word that left PR2 empty again: a flag went 0, 1, 0.           *)
C12_Witness ==
  /\ last.kind = "bwrite"
  /\ last.reg = "PR2"
  /\ last.field = "PIF38"
  /\ last.x = Shl1(0)
  /\ mem[24] = Zero
  /\ nhw = 1
  /\ last.w # Zero
  /\ Load(mem, "PR2") = Zero

(* A step that reads a register, as a whole word, as one field, or as the  *)
(* load of a bitfield write, leaves every word of the overlay as it was    *)
(* and returns what the register holds: the whole word to the local        *)
(* variable, or the field's bit.                                           *)
C13_Step ==
  last'.kind \in {"rread", "bread", "bload"} =>
    /\ \A r \in Registers : Load(mem', r) = Load(mem, r)
    /\ mem' = mem
    /\ last'.w = Load(mem', last'.reg)
    /\ last'.kind = "rread" => loc'[last'.ctx] = Load(mem', last'.reg)
    /\ last'.kind = "bread" =>
         (last'.x = Shl1(0) <=> And(Load(mem', last'.reg), Mask(last'.reg, last'.field)) # Zero)
    /\ last'.kind = "bload" => tmp'[last'.ctx] = Load(mem', last'.reg)

(* C13: a read of any register, whole-word (an rEXTI macro) or single-bit  *)
(* (a bEXTI macro), leaves all twelve registers unchanged; in particular   *)
(* reading PR1 or PR2 returns the currently latched flags and clears none  *)
(* of them.                                                                *)
C13_ReadsChangeNothing == [][C13_Step]_vars

(* Hardware latched lines 5 and 22 on an empty PR1 and rEXTI_PR1 has been  *)
(* read: the read returned both flags and both are still pending.          *)
C13_Witness ==
  /\ last.kind = "rread"
  /\ last.reg = "PR1"
  /\ mem[24] = Zero
  /\ last.w = Or(Mask("PR1", "PIF5"), Mask("PR1", "PIF22"))
  /\ loc[last.ctx] = last.w
  /\ Load(mem, "PR1") = last.w

(* The mask, trigger-selection and software-interrupt registers. *)
ConfigRegs == Registers \ PendingRegs

(* Right after a whole-register write of a word v inside VALID to a        *)
(* configuration register, the register holds v, and the next access, if   *)
(* it reads that register, returns v: the whole word, or v's bit of the    *)
(* field read.                                                             *)
C14_Step ==
  (last.kind = "rwrite" /\ last.reg \in ConfigRegs /\ last.w \subseteq VALID(last.reg)) =>
    /\ Load(mem, last.reg) = last.w
    /\ (last'.kind = "rread" /\ last'.reg = last.reg) =>
         /\ loc'[last'.ctx] = last.w
         /\ last'.w = last.w
    /\ (last'.kind = "bread" /\ last'.reg = last.reg) =>
         (last'.x = Shl1(0) <=> And(last.w, Mask(last.reg, last'.field)) # Zero)
    /\ (last'.kind = "bload" /\ last'.reg = last.reg) => tmp'[last'.ctx] = last.w

(* C14: the mask, trigger and software-interrupt registers (IMR, EMR,      *)
(* RTSR, FTSR, SWIER of both banks) are plain read-write state: after a    *)
(* whole-register write of a value v whose bits lie inside the register's  *)
(* VALID mask, the next read of that register returns v, with no           *)
(* intervening software write.                                             *)
C14_WriteThenReadReturnsWritten == [][C14_Step]_vars

(* SWIER1 held 0xFFFFFFFF, 0xA5A5A5A5 & mEXTI_SWIER1_VALID was written to  *)
(* it, and the read that followed returned that word.                      *)
C14_Witness ==
  /\ last.kind = "rread"
  /\ last.reg = "SWIER1"
  /\ mem[24] = AllOnes
  /\ last.w = And(Hex(<<"A", "5", "A", "5", "A", "5", "A", "5">>), VALID("SWIER1"))
  /\ loc[last.ctx] = last.w
  /\ nops = 2

(* Both contexts have completed a bitfield write, to different fields of   *)
(* configuration register r, and software has made no other access.        *)
BothWrote(r) ==
  /\ nops = 2
  /\ \A c \in Contexts : pc[c] = "idle" /\ fin[c].macro # "none" /\ bMember(fin[c].macro) = r
  /\ bField(fin["main"].macro) # bField(fin["isr"].macro)
  /\ r \in ConfigRegs

(* Field f of the word register r holds has value x. *)
Holds(r, f, x) == ReadField(r, f, Load(mem, r)) = x

(* C15: a single-bit write through a bit macro (bEXTI_<field> = x) changes *)
(* only its own bit of the register even when another execution context    *)
(* (e.g. an interrupt handler) writes a different bit of the same register *)
(* between the macro's read and its write-back: after both contexts        *)
(* finish, both bits hold the values their writers assigned.  Stated for   *)
(* the registers where a store keeps the word written.                     *)
C15_ConcurrentBitWritesBothHold ==
  BothWrote(focus) =>
    \A c \in Contexts : Holds(focus, bField(fin[c].macro), fin[c].x)

(* The word w with the field of each context's completed write replaced by *)
(* the value that context assigned, the write of context c first.          *)
BothApplied(r, c, d, w) ==
  WriteField(r, bField(fin[d].macro), fin[d].x,
             WriteField(r, bField(fin[c].macro), fin[c].x, w))

(* C16: when callers provide atomicity, i.e. each single-bit write's read  *)
(* and write-back execute with no other context's access to that register  *)
(* in between, then for two contexts writing different bits of the same    *)
(* plain read-write register both writes take effect in either order and   *)
(* the final word is the initial word with exactly those two bits updated. *)
(* The initial word is the one the never-written word at 0x18 still holds. *)
C16_AtomicBitWritesCompose ==
  (BothWrote(focus) /\ \A c \in Contexts : fin[c].alone) =>
    /\ \A c \in Contexts : Holds(focus, bField(fin[c].macro), fin[c].x)
    /\ Load(mem, focus) = BothApplied(focus, "main", "isr", mem[24])
    /\ Load(mem, focus) = BothApplied(focus, "isr", "main", mem[24])
    /\ LET both == Or(Mask(focus, bField(fin["main"].macro)),
                      Mask(focus, bField(fin["isr"].macro))) IN
         And(Load(mem, focus), Not(both)) = And(mem[24], Not(both))

(* IMR1 held 0xFFFFFFFF; thread mode ran bEXTI_IM5 = 0 alone, then the     *)
(* handler ran bEXTI_IM22 = 0 alone: IMR1 is 0xFFBFFFDF.                   *)
C16_Witness ==
  /\ BothWrote("IMR1")
  /\ focus = "IMR1"
  /\ \A c \in Contexts : fin[c].alone
  /\ last.ctx = "isr"
  /\ fin["isr"] = [macro |-> "IM22", x |-> Zero, alone |-> TRUE]
  /\ fin["main"] = [macro |-> "IM5", x |-> Zero, alone |-> TRUE]
  /\ mem[24] = AllOnes
  /\ Load(mem, "IMR1") = Hex(<<"F", "F", "B", "F", "F", "F", "D", "F">>)

(* The step is a write in one of the two styles to a register that is not  *)
(* a pending register: the store of a named-field write whose word no      *)
(* other context has changed since its load, or a whole-register write of  *)
(* a word of the form x & mEXTI_<REG>_VALID.                               *)
FieldWriteStep ==
  /\ last'.kind = "bwrite"
  /\ last'.reg \in ConfigRegs
  /\ tmp[last'.ctx] = Load(mem, last'.reg)

MaskedWriteStep ==
  /\ last'.kind = "rwrite"
  /\ last'.reg \in ConfigRegs
  /\ \E p \in Patterns \cup {loc[last'.ctx]} : last'.w = And(p, VALID(last'.reg))

(* The reserved part of the word register r holds in memory m. *)
ReservedPart(m, r) == And(Load(m, r), RESERVED(r))

(* x & mEXTI_<REG>_VALID has no reserved bit, for the words x of a run:    *)
(* the prior contents of every register and the words the contexts read.   *)
PatternsMaskedHaveNoReservedBit ==
  \A r \in Registers : \A p \in Patterns : And(And(p, VALID(r)), RESERVED(r)) = Zero

MaskedHasNoReservedBit ==
  /\ PatternsMaskedHaveNoReservedBit
  /\ \A c \in Contexts : And(And(loc[c], VALID(focus)), RESERVED(focus)) = Zero

MaskRead(r, f, w) == IF And(w, Mask(r, f)) # Zero THEN Shl1(0) ELSE Zero

MaskWrite(r, f, x, w) == IF x = Shl1(0) THEN Or(w, Mask(r, f)) ELSE And(w, Not(Mask(r, f)))

(* On word w of register r, every named field read or written through      *)
(* struct b gives what the mask gives.                                     *)
FieldsRefineMasks(r, w) ==
  \A f \in Fields(r) :
    /\ (ReadField(r, f, w) = Shl1(0) <=> And(w, Mask(r, f)) # Zero)
    /\ WriteField(r, f, Shl1(0), w) = Or(w, Mask(r, f))
    /\ WriteField(r, f, Zero, w) = And(w, Not(Mask(r, f)))

(* A step of the bitfield accesses is the step the masked accesses make    *)
(* from the same state: a bitfield read returns the masked read, and a     *)
(* bitfield write stores the masked write of the word it loaded, leaving   *)
(* the memory the masked access would leave.                               *)
C18_Step ==
  /\ last'.kind = "bread" =>
       last'.x = MaskRead(last'.reg, last'.field, Load(mem, last'.reg))
  /\ last'.kind = "bwrite" =>
       /\ last'.w = MaskWrite(last'.reg, last'.field, last'.x, tmp[last'.ctx])
       /\ mem' = Store(mem, last'.reg, MaskWrite(last'.reg, last'.field, last'.x, tmp[last'.ctx]))

(* C18: bitfield access refines masked access: for every register REG,     *)
(* named field F and 32-bit word value w, reading b.F yields 1 exactly     *)
(* when (w & mEXTI_<REG>_<F>) != 0, and the word after writing b.F = 1     *)
(* (resp. 0) equals w | mEXTI_<REG>_<F> (resp. w & ~mEXTI_<REG>_<F>), so a *)
(* model using the union's bitfields and a model using the masks on the    *)
(* plain word stay in identical states under the same operation sequence.  *)
(* The words w are those a register holds in a run: the one it starts     *)
(* with and the one each write or trigger leaves.                          *)
C18_BitfieldRefinesMasks ==
  /\ [](last.kind \in {"none", "rwrite", "bwrite", "hwset"} =>
         FieldsRefineMasks(focus, Load(mem, focus)))
  /\ [][C18_Step]_vars

(* RTSR2 held 0xFFFFFFFF and bEXTI_RT38 = 0 has run alone on it: the word  *)
(* is 0xFFFFFFFF & ~mEXTI_RTSR2_RT38 = 0xFFFFFFBF.                         *)
C18_Witness ==
  /\ last.kind = "bwrite"
  /\ last.reg = "RTSR2"
  /\ last.field = "RT38"
  /\ last.x = Zero
  /\ nops = 1
  /\ mem[24] = AllOnes
  /\ Load(mem, "RTSR2") = Hex(<<"F", "F", "F", "F", "F", "F", "B", "F">>)

(* The step that starts an access also completes it: no context is left    *)
(* inside an access.                                                       *)
StartCompletes ==
  nops' = nops + 1 => pc'[last'.ctx] = "idle"

(* C19 as stated: every access the layer offers (whole-register read,      *)
(* whole-register write, single-bit read, single-bit write) is a single    *)
(* bounded memory operation that never blocks: started in any state it     *)
(* completes, as one indivisible step on the register, whatever other      *)
(* contexts do.                                                            *)
C19_EveryAccessIsOneStep ==
  /\ [][StartCompletes]_vars
  /\ []<>(\A c \in Contexts : pc[c] = "idle")

(* A whole-register read or write and a single-bit read start and complete *)
(* in one step; a single-bit write starts with the step that loads the     *)
(* word and completes with the step that stores it.                        *)
C19_Step ==
  /\ last'.kind \in {"rread", "rwrite", "bread"} =>
       nops' = nops + 1 /\ pc[last'.ctx] = "idle" /\ pc'[last'.ctx] = "idle"
  /\ last'.kind = "bload" =>
       nops' = nops + 1 /\ pc[last'.ctx] = "idle" /\ pc'[last'.ctx] = "rmw"
  /\ last'.kind = "bwrite" =>
       nops' = nops /\ pc[last'.ctx] = "rmw" /\ pc'[last'.ctx] = "idle"

(* C19, amended: every access the layer offers completes without blocking  *)
(* in a bounded number of memory operations, whatever other contexts do: a *)
(* whole-register read, a whole-register write and a single-bit read are   *)
(* one indivisible step on the register; a single-bit write is two steps,  *)
(* a load of the register word and a store of the modified word, between   *)
(* which other contexts and hardware can access the register.  Whenever an *)
(* access is in progress, a state with none in progress follows.           *)
C19_EveryAccessCompletes ==
  /\ [][C19_Step]_vars
  /\ []<>(\A c \in Contexts : pc[c] = "idle")

(* Thread mode has loaded the word of a single-bit write and has not yet   *)
(* stored it, and the handler has meanwhile completed a single-bit write   *)
(* of its own to the same register.                                        *)
C19_Witness ==
  /\ pc["main"] = "rmw"
  /\ pc["isr"] = "idle"
  /\ last.kind = "bwrite"
  /\ last.ctx = "isr"
  /\ last.reg = bMember(acc["main"].macro)
  /\ tmp["main"] # Load(mem, last.reg)

(* The word a context read from the pending register before the write of   *)
(* this step: the local snapshot of a whole-register write, the word       *)
(* loaded by a bitfield write.                                             *)
ReadBefore ==
  IF last'.kind = "rwrite" THEN loc[last'.ctx] ELSE tmp[last'.ctx]

(* A write to a pending register of a word s that contains the word read   *)
(* before leaves p & ~s, p being the content just before the write: no     *)
(* flag of s and no flag that was pending at the read is left, and every   *)
(* other flag is.                                                          *)
C20_Step ==
  (/\ last'.kind \in {"rwrite", "bwrite"}
   /\ last'.reg \in PendingRegs
   /\ ReadBefore \subseteq last'.w) =>
    LET r == last'.reg
        s == last'.w
        p == Load(mem, r) IN
      /\ Load(mem', r) = And(p, Not(s))
      /\ And(Load(mem', r), s) = Zero
      /\ And(Load(mem', r), ReadBefore) = Zero
      /\ \A k \in p \ s : k \in Load(mem', r)

(* C20: writing back to PR1/PR2 a value that was previously read from it   *)
(* (with or without extra bits OR-ed in) clears exactly the flags that are *)
(* 1 in the written value: with s the value written and p the register     *)
(* content just before the write, the register becomes p & ~s, so every    *)
(* flag that was pending at the time of the read is cleared, not only the  *)
(* intended one.                                                           *)
C20_WriteBackClearsAllRead == [][C20_Step]_vars

(* PR1 held 0xA5A5A5A5, a context read it and wrote back the word read     *)
(* with mEXTI_PR1_PIF22 OR-ed in: no flag is pending, neither PIF22 nor    *)
(* any of the sixteen that were pending at the read.                       *)
C20_Witness ==
  /\ last.kind = "rwrite"
  /\ last.reg = "PR1"
  /\ nops = 2
  /\ mem[24] = Hex(<<"A", "5", "A", "5", "A", "5", "A", "5">>)
  /\ loc[last.ctx] = mem[24]
  /\ last.w = Or(loc[last.ctx], Mask("PR1", "PIF22"))
  /\ Load(mem, "PR1") = Zero

(* The twelve rEXTI macros: each dereferences sEXTI, names the member .w of *)
(* the overlay member that bears its own name, and the twelve members sit   *)
(* at twelve different offsets.                                             *)
RegMacrosResolve ==
  /\ Len(rEXTI) = 12
  /\ Cardinality(rNames) = 12
  /\ rNames = Registers
  /\ \A n \in rNames : rMember(n) = n
  /\ Len(rEXTI_w) = Len(rEXTI)
  /\ \A i \in 1..Len(rEXTI) :
       rEXTI_w[i] = <<rEXTI[i][1], "sEXTI", rEXTI[i][2], "w">>
  /\ Cardinality({ Offset(rMember(n)) : n \in rNames }) = 12

(* C21: each of the twelve macros rEXTI_<REG> resolves to the word .w of    *)
(* the overlay member named <REG> and to no other register, so the twelve   *)
(* macros address twelve pairwise distinct offsets, all through the one     *)
(* pointer sEXTI: an access through the macro of a register reaches the     *)
(* word of that register and every other word keeps its content.            *)
C21_RegMacrosAddressOwnRegister ==
  /\ RegMacrosResolve
  /\ TestRegMacros(focus) = {focus}
  /\ last.kind \in {"rread", "rwrite"} => last.reg = focus
  /\ nhw = 0 => \A n \in Members \ {focus} : mem[Offset(n)] = mem[24]

(* rEXTI_EMR2 has been written: the word of EMR2 holds the value written    *)
(* and the word of IMR2, the member before it, still holds its content.     *)
C21_Witness ==
  /\ last.kind = "rwrite"
  /\ last.reg = "EMR2"
  /\ Load(mem, "EMR2") = last.w
  /\ Load(mem, "EMR2") # mem[24]
  /\ Load(mem, "IMR2") = mem[24]

(* A software write step changes no word but that of the register written. *)
C22_Step ==
  last'.kind \in {"rwrite", "bwrite"} =>
    \A n \in Members \ {last'.reg} : mem'[Offset(n)] = mem[Offset(n)]

RegOf(k, b) == k \o ToString(b)

(* In each bank the valid masks agree across the register kinds, and the   *)
(* lines of the trigger, software trigger and pending registers are among  *)
(* the lines of the mask registers.                                        *)
ValidConsistentPerBank ==
  \A b \in 1..2 :
    /\ VALID(RegOf("IMR", b)) = VALID(RegOf("EMR", b))
    /\ VALID(RegOf("RTSR", b)) = VALID(RegOf("FTSR", b))
    /\ VALID(RegOf("FTSR", b)) = VALID(RegOf("SWIER", b))
    /\ VALID(RegOf("SWIER", b)) = VALID(RegOf("PR", b))
    /\ VALID(RegOf("RTSR", b)) \subseteq VALID(RegOf("IMR", b))

(* The bits of the word of register r that the last access is about: the   *)
(* flag hardware has set, or the field of a bitfield access.               *)
LineBits ==
  IF last.kind = "hwset" THEN last.w
  ELSE IF last.kind \in {"bread", "bload", "bwrite"} THEN BitsOf(last.reg, last.field)
  ELSE {}

(* C23: within each bank the valid masks are consistent across register    *)
(* kinds: VALID(IMRn) = VALID(EMRn); VALID(RTSRn) = VALID(FTSRn) =         *)
(* VALID(SWIERn) = VALID(PRn); and VALID(RTSRn) is a subset of VALID(IMRn), *)
(* so every line that is trigger-configured, software-triggered or pending *)
(* in a run also has an interrupt-mask and an event-mask bit.              *)
C23_ValidMasksConsistent ==
  /\ ValidConsistentPerBank
  /\ (last.kind # "none" /\ KindOf[last.reg] \in {"RTSR", "FTSR", "SWIER", "PR"}) =>
       /\ LineBits \subseteq VALID(last.reg)
       /\ LineBits \subseteq VALID(RegOf("IMR", BankOf[last.reg]))
       /\ LineBits \subseteq VALID(RegOf("EMR", BankOf[last.reg]))

(* Hardware has set the flag of line 38 (bit 6 of PR2), a line that IMR2   *)
(* and EMR2 can mask.                                                      *)
C23_Witness ==
  /\ last.kind = "hwset"
  /\ last.reg = "PR2"
  /\ last.w = Shl1(6)
  /\ 6 \in Load(mem, "PR2")
  /\ 6 \in VALID("IMR2") \cap VALID("EMR2")

(* The masks of whole-register clears of pending register r: 0, the masks  *)
(* of the exercised flags and their OR.                                    *)
ClearMasks(r) ==
  {Zero}
    \cup { Mask(r, f) : f \in TestFields(r) }
    \cup { UNION { Mask(r, f) : f \in TestFields(r) } }

(* On memory m, with no hardware step in between: writing a to r twice     *)
(* gives what writing it once gives, and writing a then b, b then a, and   *)
(* (a | b) once give the same.                                             *)
ClearsCompose(m, r) ==
  \A a \in ClearMasks(r) :
    /\ Store(Store(m, r, a), r, a) = Store(m, r, a)
    /\ \A b \in ClearMasks(r) :
         /\ Store(Store(m, r, a), r, b) = Store(Store(m, r, b), r, a)
         /\ Store(Store(m, r, a), r, b) = Store(m, r, Or(a, b))

(* The memory before the first access. *)
InitialMem == [o \in DOMAIN mem |-> mem[24]]

(* C24: clearing pending flags by whole-register mask writes is idempotent *)
(* and order-independent when hardware sets no flag in between: writing    *)
(* mask a twice gives the same PR value as writing it once, and writing a  *)
(* then b, writing b then a, and writing (a | b) once all give the same PR *)
(* value.  It holds from every content the pending register has in a run,  *)
(* and of the writes of a run: after the write of a, writing a again       *)
(* changes nothing, and where that write was the first access, writing b   *)
(* next gives what b then a, and (a | b) once, give from the start.        *)
C24_MaskClearsCompose ==
  focus \in PendingRegs =>
    /\ ClearsCompose(mem, focus)
    /\ (last.kind = "rwrite" /\ last.w \in ClearMasks(focus)) =>
         /\ Store(mem, focus, last.w) = mem
         /\ (nops = 1 /\ nhw = 0) =>
              \A b \in ClearMasks(focus) :
                /\ Store(mem, focus, b) = Store(Store(InitialMem, focus, b), focus, last.w)
                /\ Store(mem, focus, b) = Store(InitialMem, focus, Or(last.w, b))

(* PR1 held all ones; the mask of PIF22 has been written after another     *)
(* write that cleared PIF5, no hardware step in between: PR1 holds what    *)
(* one write of both masks leaves.                                         *)
C24_Witness ==
  /\ focus = "PR1"
  /\ mem[24] = AllOnes
  /\ nhw = 0
  /\ nops = 2
  /\ last.kind = "rwrite"
  /\ last.w = Mask("PR1", "PIF22")
  /\ Load(mem, "PR1") = AllOnes \ {5, 22}
  /\ mem = Store(InitialMem, "PR1", Or(Mask("PR1", "PIF5"), Mask("PR1", "PIF22")))

(* The bit macros that resolve to field f of register r. *)
BitMacrosOf(r, f) == { i \in 1..Len(bEXTI) : bEXTI[i][2] = r /\ bEXTI[i][3] = f }

(* The per-bit masks named f of register r. *)
MasksNamed(r, f) == { i \in 1..Len(MaskTable(r)) : MaskTable(r)[i][1] = f }

(* Every named bitfield has exactly one per-bit mask, on its own bit, and  *)
(* exactly one bit macro, of its own name.                                 *)
EachFieldHasOneMaskAndMacro ==
  \A r \in Registers : \A f \in Fields(r) :
    /\ Cardinality(MasksNamed(r, f)) = 1
    /\ Mask(r, f) = BitsOf(r, f)
    /\ Cardinality(BitMacrosOf(r, f)) = 1
    /\ \A i \in BitMacrosOf(r, f) : bEXTI[i][1] = f

(* No two bit macros share a name or resolve to the same bit of the same   *)
(* register, and each resolves to a named field of a register.             *)
BitMacrosDistinct ==
  /\ Cardinality(bNames) = Len(bEXTI)
  /\ \A n \in bNames : bMember(n) \in Registers /\ bField(n) \in Fields(bMember(n))
  /\ \A n1, n2 \in bNames :
       (bMember(n1) = bMember(n2)
          /\ BitsOf(bMember(n1), bField(n1)) \cap BitsOf(bMember(n2), bField(n2)) # {})
         => n1 = n2

(* No mask and no bit macro names a reserved position. *)
NoneForReserved ==
  /\ \A r \in Registers : \A i \in 1..Len(MaskTable(r)) :
       /\ MaskTable(r)[i][1] \in Fields(r)
       /\ And(Shl1(MaskTable(r)[i][2]), RESERVED(r)) = Zero
  /\ \A n \in bNames : And(BitsOf(bMember(n), bField(n)), RESERVED(bMember(n))) = Zero
  /\ \A r \in {"RTSR1", "FTSR1", "SWIER1", "PR1"} :
       /\ 17 \in RESERVED(r)
       /\ \A i \in 1..Len(MaskTable(r)) : MaskTable(r)[i][2] # 17
       /\ \A n \in bNames : bMember(n) = r => 17 \notin BitsOf(r, bField(n))

NamesOneToOne ==
  /\ EachFieldHasOneMaskAndMacro
  /\ BitMacrosDistinct
  /\ NoneForReserved

(* C25: names map one-to-one onto bits: every named (non-reserved)         *)
(* bitfield of every register has exactly one per-bit mask                 *)
(* mEXTI_<REG>_<field> and exactly one bit macro bEXTI_<field> that        *)
(* resolves to that field of that register; no two bit macros share a name *)
(* or resolve to the same (register, bit); and no mask or bit macro exists *)
(* for a reserved position (bit 17 of RTSR1, FTSR1, SWIER1 and PR1 among   *)
(* them).  So the field of every bitfield access of a run is a named field *)
(* with one macro, its bit is the bit of its mask and is not reserved.     *)
C25_NamesOneToOne ==
  /\ NamesOneToOne
  /\ last.kind \in {"bread", "bload", "bwrite"} =>
       /\ last.field \in Fields(last.reg)
       /\ Cardinality({ n \in TestMacros(last.reg) : bField(n) = last.field }) = 1
       /\ BitsOf(last.reg, last.field) = Mask(last.reg, last.field)
       /\ And(BitsOf(last.reg, last.field), RESERVED(last.reg)) = Zero

(* bEXTI_RT22 = 1 has been executed on RTSR1, next to the reserved bit 17: *)
(* bit 22, the bit of mEXTI_RTSR1_RT22, is set.                            *)
C25_Witness ==
  /\ last.kind = "bwrite"
  /\ last.reg = "RTSR1"
  /\ last.field = "RT22"
  /\ last.x = Shl1(0)
  /\ Mask("RTSR1", "RT22") = Shl1(22)
  /\ 22 \in Load(mem, "RTSR1")

=============================================================================
